---- MODULE Spec2Model ----
(***************************************************************************)
(* Citation key pipeline of generate-inspirehep-bibtex:                    *)
(*   LaTeXParser.extract_citations      (src/src/latex_parser.py)          *)
(*   KeyIdentifier.process_keys         (src/src/key_identifier.py)        *)
(*   InspireHEPClient.fetch_bibtex_entries (src/src/inspirehep_client.py)  *)
(*   BibTeXProcessor.process_and_deduplicate / create_standardized_latex   *)
(*                                      (src/src/bibtex_processor.py)      *)
(*   BibTeXGeneratorApp.process_latex_file (src/src/app.py)                *)
(* Text is a sequence of one-character strings; a Python dict is the       *)
(* sequence of its <<key, value>> items in insertion order.                *)
(***************************************************************************)
EXTENDS Integers, Sequences, FiniteSets, TLC

VARIABLES
    pc,                    \* position inside the running operation
    latex_content,         \* the document text
    citations,             \* list returned by extract_citations
    categorized_keys,      \* dict of four lists returned by process_keys
    fetch_log,             \* outcome of each registry lookup, in call order
    raw_bibtex_entries,    \* dict returned by fetch_bibtex_entries
    deduplicated_entries,  \* process_and_deduplicate: {standard_key: entry}
    key_mapping,           \* process_and_deduplicate: {original_key: standard_key}
    seen_keys,             \* process_and_deduplicate: {standard_key: original_key}
    updated_content,       \* text produced by create_standardized_latex
    replacements_made,     \* counter of create_standardized_latex
    second_content,        \* text of a second create_standardized_latex pass
    second_replacements,   \* counter of the second pass
    loop_index,            \* items already handled by the running loop
    result,                \* what process_latex_file returned
    http_log,              \* requests and responses of the latest lookup
    output_files,          \* files written so far: {filename: content}
    output_filename,       \* the output_filename argument of process_latex_file
    bibliography_name,     \* second value returned by process_uploaded_file
    bib_filename           \* value returned by determine_output_filename

vars == <<pc, latex_content, citations, categorized_keys, fetch_log,
          raw_bibtex_entries, deduplicated_entries, key_mapping, seen_keys,
          updated_content, replacements_made, second_content,
          second_replacements, loop_index, result, http_log, output_files,
          output_filename, bibliography_name, bib_filename>>

None == "None"

(***************************************************************************)
(* Characters and Python string primitives                                 *)
(***************************************************************************)
BSL == "\\"
NL == "\n"

Whitespace == {" ", NL, "\t"}

Digits == {"0", "1", "2", "3", "4", "5", "6", "7", "8", "9"}

LowerLetters == {"a", "b", "c", "d", "e", "f", "g", "h", "i", "j", "k", "l", "m",
                 "n", "o", "p", "q", "r", "s", "t", "u", "v", "w", "x", "y", "z"}

UpperLetters == {"A", "B", "C", "D", "E", "F", "G", "H", "I", "J", "K", "L", "M",
                 "N", "O", "P", "Q", "R", "S", "T", "U", "V", "W", "X", "Y", "Z"}

Letters == LowerLetters \cup UpperLetters

\* regex \w
WordChars == Letters \cup Digits \cup {"_"}

\* s[i:] with a 1-based index
Tail_(s, i) == SubSeq(s, i, Len(s))

\* s.startswith(p, i-1)
StartsAt(s, i, p) ==
    /\ i + Len(p) - 1 <= Len(s)
    /\ SubSeq(s, i, i + Len(p) - 1) = p

\* s.find(c, i-1) for a single character c: 1-based position or 0
RECURSIVE Find(_, _, _)
Find(s, c, i) ==
    IF i > Len(s) THEN 0
    ELSE IF s[i] = c THEN i
    ELSE Find(s, c, i + 1)

\* length of the run of characters of set cs starting at position i
RECURSIVE RunLen(_, _, _)
RunLen(s, i, cs) ==
    IF i > Len(s) \/ s[i] \notin cs THEN 0
    ELSE 1 + RunLen(s, i + 1, cs)

\* length of the run of characters outside set cs starting at position i
RECURSIVE RunLenNot(_, _, _)
RunLenNot(s, i, cs) ==
    IF i > Len(s) \/ s[i] \in cs THEN 0
    ELSE 1 + RunLenNot(s, i + 1, cs)

\* str.lstrip()
RECURSIVE LStrip(_)
LStrip(s) ==
    IF s = <<>> THEN <<>>
    ELSE IF s[1] \in Whitespace THEN LStrip(Tail(s))
    ELSE s

\* str.rstrip()
RECURSIVE RStrip(_)
RStrip(s) ==
    IF s = <<>> THEN <<>>
    ELSE IF s[Len(s)] \in Whitespace THEN RStrip(SubSeq(s, 1, Len(s) - 1))
    ELSE s

\* str.strip()
Strip(s) == RStrip(LStrip(s))

\* s.split(c): the list of pieces between occurrences of character c
RECURSIVE Split(_, _)
Split(s, c) ==
    LET p == Find(s, c, 1)
    IN  IF p = 0 THEN <<s>>
        ELSE <<SubSeq(s, 1, p - 1)>> \o Split(Tail_(s, p + 1), c)

\* c.join(parts)
RECURSIVE Join(_, _)
Join(parts, c) ==
    IF parts = <<>> THEN <<>>
    ELSE IF Len(parts) = 1 THEN parts[1]
    ELSE parts[1] \o <<c>> \o Join(Tail(parts), c)

\* concatenation of a list of texts
RECURSIVE Concat(_)
Concat(parts) ==
    IF parts = <<>> THEN <<>>
    ELSE parts[1] \o Concat(Tail(parts))

\* the elements of a list, as a set
Range(f) == {f[i] : i \in DOMAIN f}

\* [x for x in xs if x]
RECURSIVE NonEmpty(_)
NonEmpty(xs) ==
    IF xs = <<>> THEN <<>>
    ELSE IF xs[1] = <<>> THEN NonEmpty(Tail(xs))
    ELSE <<xs[1]>> \o NonEmpty(Tail(xs))

(***************************************************************************)
(* Python dict as an insertion-ordered list of <<key, value>> items        *)
(***************************************************************************)
DictKeys(d) == {d[i][1] : i \in DOMAIN d}

DictHas(d, k) == \E i \in DOMAIN d : d[i][1] = k

DictGet(d, k) == d[CHOOSE i \in DOMAIN d : d[i][1] = k][2]

\* d[k] = v : an existing key keeps its position, a new key is appended
DictSet(d, k, v) ==
    IF DictHas(d, k)
    THEN [i \in DOMAIN d |-> IF d[i][1] = k THEN <<k, v>> ELSE d[i]]
    ELSE Append(d, <<k, v>>)

DictValues(d) == {d[i][2] : i \in DOMAIN d}

(***************************************************************************)
(* LaTeXParser                                                             *)
(***************************************************************************)
CitePrefix == <<BSL, "c", "i", "t", "e", "{">>

\* the pattern with a greedy payload, r'\\cite\{(.+)\}': the match ends at
\* the last closing brace of the text
CiteMatchEnd_greedy(s, i) ==
    LET ends == {e \in (i + 7)..Len(s) : s[e] = "}"}
    IN  IF StartsAt(s, i, CitePrefix) /\ ends # {}
        THEN CHOOSE e \in ends : \A f \in ends : f <= e
        ELSE 0

\* re.compile(r'\\cite\{([^}]+)\}') tried at position i: 0 when it does not
\* match there, else the position of the closing brace
CiteMatchEnd(s, i) ==
    IF ~StartsAt(s, i, CitePrefix) THEN 0
    ELSE LET n == RunLenNot(s, i + 6, {"}"})
         IN  IF n >= 1 /\ i + 6 + n <= Len(s) THEN i + 6 + n ELSE 0

\* cite_pattern.findall(s): the payloads of the non-overlapping matches,
\* scanning from position i
RECURSIVE FindallCite(_, _)
FindallCite(s, i) ==
    IF i > Len(s) THEN <<>>
    ELSE LET e == CiteMatchEnd(s, i)
         IN  IF e = 0 THEN FindallCite(s, i + 1)
             ELSE <<SubSeq(s, i + 6, e - 1)>> \o FindallCite(s, e + 1)

\* the comment loop cutting at the first '%' whatever precedes it
RECURSIVE StripComment_any_percent(_, _)
StripComment_any_percent(line, from) ==
    LET comment_pos == Find(line, "%", from)
    IN  IF comment_pos = 0 THEN line
        ELSE SubSeq(line, 1, comment_pos - 1)

\* the while loop of extract_citations on one line: cut the line at the
\* first '%' that is at position 0 or not preceded by a backslash
RECURSIVE StripComment(_, _)
StripComment(line, from) ==
    LET comment_pos == Find(line, "%", from)
    IN  IF comment_pos = 0 THEN line
        ELSE IF comment_pos = 1 \/ line[comment_pos - 1] # BSL
             THEN SubSeq(line, 1, comment_pos - 1)
             ELSE StripComment(line, comment_pos + 1)

\* cleaned_content: every line stripped of its comment, re-joined
CleanedContent(text) ==
    LET lines == Split(text, NL)
        cleaned_lines == [i \in DOMAIN lines |-> StripComment(lines[i], 1)]
    IN  Join(cleaned_lines, NL)

\* the list comprehension keeping each segment as written: no strip
PayloadKeys_untrimmed(match) == NonEmpty(Split(match, ","))

\* [key.strip() for key in match.split(',') if key.strip()]
PayloadKeys(match) ==
    LET parts == Split(match, ",")
    IN  NonEmpty([i \in DOMAIN parts |-> Strip(parts[i])])

\* all_keys / filtered_keys of extract_citations, before set()
AllKeys(text) ==
    LET matches == FindallCite(CleanedContent(text), 1)
    IN  Concat([i \in DOMAIN matches |-> PayloadKeys(matches[i])])

\* the distinct keys extract_citations returns; list(set(...)) fixes no order
ExtractedKeySet(text) == Range(AllKeys(text))

BibliographyPrefix ==
    <<BSL, "b", "i", "b", "l", "i", "o", "g", "r", "a", "p", "h", "y", "{">>

\* re.compile(r'\\bibliography\{([^}]+)\}') tried at position i: 0 when it
\* does not match there, else the position of the closing brace
BibliographyMatchEnd(s, i) ==
    IF ~StartsAt(s, i, BibliographyPrefix) THEN 0
    ELSE LET n == RunLenNot(s, i + 14, {"}"})
         IN  IF n >= 1 /\ i + 14 + n <= Len(s) THEN i + 14 + n ELSE 0

\* group(1) of the rightmost match instead of the leftmost
RECURSIVE bibliography_search_last(_, _)
bibliography_search_last(s, i) ==
    IF i > Len(s) THEN None
    ELSE LET e == BibliographyMatchEnd(s, i)
         IN  IF e = 0 THEN bibliography_search_last(s, i + 1)
             ELSE LET later == bibliography_search_last(s, e + 1)
                  IN  IF later = None THEN SubSeq(s, i + 14, e - 1) ELSE later

\* bibliography_pattern.search(s) from position i: group(1) of the
\* leftmost match, None when there is no match
RECURSIVE bibliography_search(_, _)
bibliography_search(s, i) ==
    IF i > Len(s) THEN None
    ELSE LET e == BibliographyMatchEnd(s, i)
         IN  IF e = 0 THEN bibliography_search(s, i + 1)
             ELSE SubSeq(s, i + 14, e - 1)

\* extract_bibliography_name(latex_content)
extract_bibliography_name(text) ==
    LET match == bibliography_search(text, 1)
    IN  IF match = None THEN None ELSE Strip(match)

(***************************************************************************)
(* KeyIdentifier                                                           *)
(***************************************************************************)
INSPIREHEP == "inspirehep"
INSPIREHEP_BIBTEX == "inspirehep_bibtex"
ARXIV == "arxiv"
UNKNOWN == "unknown"

\* character c matches the letter written lower-case as l, ignoring case
SameLetterIgnoreCase(c, l) ==
    \/ c = l
    \/ \E i \in 1..26 :
          /\ <<"a","b","c","d","e","f","g","h","i","j","k","l","m",
               "n","o","p","q","r","s","t","u","v","w","x","y","z">>[i] = l
          /\ <<"A","B","C","D","E","F","G","H","I","J","K","L","M",
               "N","O","P","Q","R","S","T","U","V","W","X","Y","Z">>[i] = c

\* arxiv_prefix_pattern = r'^arxiv:(.+)$', IGNORECASE: '.' does not match a
\* newline and '$' matches at the end or before one final newline
arxiv_prefix_match(key) ==
    /\ Len(key) >= 7
    /\ \A i \in 1..5 : SameLetterIgnoreCase(key[i], <<"a","r","x","i","v">>[i])
    /\ key[6] = ":"
    /\ LET n == RunLenNot(key, 7, {NL})
       IN  /\ n >= 1
           /\ \/ 6 + n = Len(key)
              \/ 6 + n = Len(key) - 1

\* group(1) of arxiv_prefix_pattern
arxiv_prefix_group(key) == SubSeq(key, 7, 6 + RunLenNot(key, 7, {NL}))

\* '$': position i is the end of s or just before one final newline
AtEnd(s, i) ==
    \/ i = Len(s) + 1
    \/ i = Len(s) /\ s[i] = NL

\* (v\d+)?$ from position i; vs is the set of characters 'v' matches
VersionSuffix(s, i, vs) ==
    \/ AtEnd(s, i)
    \/ /\ i <= Len(s)
       /\ s[i] \in vs
       /\ RunLen(s, i + 1, Digits) >= 1
       /\ AtEnd(s, i + 1 + RunLen(s, i + 1, Digits))

\* arxiv_new_pattern = r'^\d{4}\.\d{4,5}(v\d+)?$'
arxiv_new_match(key) ==
    /\ Len(key) >= 9
    /\ \A i \in 1..4 : key[i] \in Digits
    /\ key[5] = "."
    /\ \E n \in {4, 5} :
          /\ RunLen(key, 6, Digits) >= n
          /\ VersionSuffix(key, 6 + n, {"v"})

\* arxiv_old_pattern = r'^[a-z-]+(\.[A-Z]{2})?\/\d{7}(v\d+)?$', IGNORECASE
arxiv_old_match(key) ==
    LET n == RunLen(key, 1, Letters \cup {"-"})
        AfterSlash(i) ==
            /\ i <= Len(key)
            /\ key[i] = "/"
            /\ RunLen(key, i + 1, Digits) >= 7
            /\ VersionSuffix(key, i + 8, {"v", "V"})
    IN  /\ n >= 1
        /\ \/ AfterSlash(n + 1)
           \/ /\ n + 3 <= Len(key)
              /\ key[n + 1] = "."
              /\ key[n + 2] \in Letters
              /\ key[n + 3] \in Letters
              /\ AfterSlash(n + 4)

\* inspirehep_bibtex_pattern with \d{3,5} and [a-zA-Z]{2,4} for the counts
inspirehep_bibtex_match_loose_counts(key) ==
    /\ Len(key) >= 1
    /\ key[1] \in Letters
    /\ LET c == 2 + RunLen(key, 2, WordChars)
           d == RunLen(key, c + 1, Digits)
           l == RunLen(key, c + 1 + d, Letters)
       IN  /\ c <= Len(key)
           /\ key[c] = ":"
           /\ d \in 3..5
           /\ l \in 2..4
           /\ AtEnd(key, c + 1 + d + l)

\* inspirehep_bibtex_pattern = r'^[A-Za-z][A-Za-z0-9_]*:\d{4}[a-zA-Z]{3}$'
inspirehep_bibtex_match(key) ==
    /\ Len(key) >= 1
    /\ key[1] \in Letters
    /\ LET c == 2 + RunLen(key, 2, WordChars)
       IN  /\ c + 7 <= Len(key)
           /\ key[c] = ":"
           /\ \A i \in (c + 1)..(c + 4) : key[i] \in Digits
           /\ \A i \in (c + 5)..(c + 7) : key[i] \in Letters
           /\ AtEnd(key, c + 8)

\* inspirehep_pattern without its '$': any key that starts with a digit
inspirehep_match_unanchored(key) == RunLen(key, 1, Digits) >= 1

\* inspirehep_pattern = r'^\d+$'
inspirehep_match(key) ==
    LET n == RunLen(key, 1, Digits)
    IN  n >= 1 /\ AtEnd(key, n + 1)

\* identify_key_type without the strip of its first line
identify_key_type_unstripped(raw) ==
    LET key == IF arxiv_prefix_match(raw)
               THEN arxiv_prefix_group(raw) ELSE raw
    IN  IF arxiv_new_match(key) \/ arxiv_old_match(key) THEN ARXIV
        ELSE IF inspirehep_bibtex_match(key) THEN INSPIREHEP_BIBTEX
        ELSE IF inspirehep_match(key) THEN INSPIREHEP
        ELSE UNKNOWN

identify_key_type(raw) ==
    LET stripped == Strip(raw)
        key == IF arxiv_prefix_match(stripped)
               THEN arxiv_prefix_group(stripped) ELSE stripped
    IN  IF arxiv_new_match(key) \/ arxiv_old_match(key) THEN ARXIV
        ELSE IF inspirehep_bibtex_match(key) THEN INSPIREHEP_BIBTEX
        ELSE IF inspirehep_match(key) THEN INSPIREHEP
        ELSE UNKNOWN

\* normalize_key returning the stripped key with its prefix
normalize_key_keep_prefix(raw) == Strip(raw)

normalize_key(raw) ==
    LET key == Strip(raw)
    IN  IF arxiv_prefix_match(key) THEN arxiv_prefix_group(key) ELSE key

\* the key process_keys appends for an input key: the normalized key for a
\* recognized key, the key itself for an unknown one
appended_key(key) ==
    IF identify_key_type(key) = UNKNOWN THEN key ELSE normalize_key(key)

\* the list result[t] of process_keys: the keys of type t, in input order
RECURSIVE keys_of_type(_, _)
keys_of_type(keys, t) ==
    IF keys = <<>> THEN <<>>
    ELSE IF identify_key_type(keys[1]) = t
         THEN <<appended_key(keys[1])>> \o keys_of_type(Tail(keys), t)
         ELSE keys_of_type(Tail(keys), t)

process_keys(keys) ==
    [inspirehep |-> keys_of_type(keys, INSPIREHEP),
     inspirehep_bibtex |-> keys_of_type(keys, INSPIREHEP_BIBTEX),
     arxiv |-> keys_of_type(keys, ARXIV),
     unknown |-> keys_of_type(keys, UNKNOWN)]

(***************************************************************************)
(* BibTeXProcessor                                                         *)
(***************************************************************************)
\* entry_key_pattern = r'@\w+\{([^,\s]+),' tried at position i: the captured
\* key, or None
entry_key_at(entry, i) ==
    IF i > Len(entry) \/ entry[i] # "@" THEN None
    ELSE LET w == RunLen(entry, i + 1, WordChars)
             b == i + 1 + w
         IN  IF w = 0 \/ b > Len(entry) \/ entry[b] # "{" THEN None
             ELSE LET n == RunLenNot(entry, b + 1, Whitespace \cup {","})
                      e == b + 1 + n
                  IN  IF n >= 1 /\ e <= Len(entry) /\ entry[e] = ","
                      THEN SubSeq(entry, b + 1, e - 1)
                      ELSE None

\* entry_key_pattern.search(entry): the first position that matches
RECURSIVE entry_key_search(_, _)
entry_key_search(entry, i) ==
    IF i > Len(entry) THEN None
    ELSE IF entry_key_at(entry, i) # None THEN entry_key_at(entry, i)
    ELSE entry_key_search(entry, i + 1)

extract_bibtex_key(bibtex_entry) ==
    LET m == entry_key_search(bibtex_entry, 1)
    IN  IF m = None THEN None ELSE Strip(m)

\* the key the loop body of process_and_deduplicate works with
standard_key_of(original_key, bibtex_entry) ==
    LET standard_key == extract_bibtex_key(bibtex_entry)
    IN  IF standard_key = None \/ standard_key = <<>>
        THEN original_key ELSE standard_key

\* replace_cite_keys counting every key it handles, replaced or not
replace_cite_keys_count_all(keys_part, mapping) ==
    LET keys == PayloadKeys(keys_part)
        new_keys == [i \in DOMAIN keys |->
                        IF DictHas(mapping, keys[i])
                        THEN DictGet(mapping, keys[i]) ELSE keys[i]]
    IN  [text |-> CitePrefix \o Join(new_keys, ",") \o <<"}">>,
         made |-> Len(keys)]

\* replace_cite_keys keeping the empty segments of the payload
replace_cite_keys_keep_empty(keys_part, mapping) ==
    LET parts == Split(keys_part, ",")
        keys == [i \in DOMAIN parts |-> Strip(parts[i])]
        new_keys == [i \in DOMAIN keys |->
                        IF DictHas(mapping, keys[i])
                        THEN DictGet(mapping, keys[i]) ELSE keys[i]]
    IN  [text |-> CitePrefix \o Join(new_keys, ",") \o <<"}">>,
         made |-> Cardinality({i \in DOMAIN keys : DictHas(mapping, keys[i])})]

\* replace_cite_keys looking the substituted key up again, and counting
\* that second substitution too
replace_cite_keys_chained(keys_part, mapping) ==
    LET keys == PayloadKeys(keys_part)
        once == [i \in DOMAIN keys |->
                    IF DictHas(mapping, keys[i])
                    THEN DictGet(mapping, keys[i]) ELSE keys[i]]
        new_keys == [i \in DOMAIN keys |->
                        IF DictHas(mapping, keys[i]) /\ DictHas(mapping, once[i])
                        THEN DictGet(mapping, once[i]) ELSE once[i]]
    IN  [text |-> CitePrefix \o Join(new_keys, ",") \o <<"}">>,
         made |-> Cardinality({i \in DOMAIN keys : DictHas(mapping, keys[i])})
                  + Cardinality({i \in DOMAIN keys :
                        DictHas(mapping, keys[i]) /\ DictHas(mapping, once[i])})]

\* replace_cite_keys: the text and the number of replacements for one match
replace_cite_keys(keys_part, mapping) ==
    LET keys == PayloadKeys(keys_part)
        new_keys == [i \in DOMAIN keys |->
                        IF DictHas(mapping, keys[i])
                        THEN DictGet(mapping, keys[i]) ELSE keys[i]]
    IN  [text |-> CitePrefix \o Join(new_keys, ",") \o <<"}">>,
         made |-> Cardinality({i \in DOMAIN keys : DictHas(mapping, keys[i])})]

\* cite_pattern.sub(replace_cite_keys, s) from position i: the new text
\* and the total of replacements_made
RECURSIVE SubCite(_, _, _)
SubCite(s, i, mapping) ==
    IF i > Len(s) THEN [text |-> <<>>, made |-> 0]
    ELSE LET e == CiteMatchEnd(s, i)
         IN  IF e = 0
             THEN LET r == SubCite(s, i + 1, mapping)
                  IN  [text |-> <<s[i]>> \o r.text, made |-> r.made]
             ELSE LET m == replace_cite_keys(SubSeq(s, i + 6, e - 1), mapping)
                      r == SubCite(s, e + 1, mapping)
                  IN  [text |-> m.text \o r.text, made |-> m.made + r.made]

\* create_standardized_latex rewriting the comment-stripped text
standardized_latex_of_cleaned(text, mapping) ==
    SubCite(CleanedContent(text), 1, mapping)

\* create_standardized_latex without the file write
standardized_latex(text, mapping) == SubCite(text, 1, mapping)

(***************************************************************************)
(* BibTeXManager                                                           *)
(***************************************************************************)
BibExtension == <<".", "b", "i", "b">>
default_name == <<"r", "e", "f", "e", "r", "e", "n", "c", "e", "s">>

\* s.endswith(p)
EndsWith(s, p) ==
    /\ Len(p) <= Len(s)
    /\ SubSeq(s, Len(s) - Len(p) + 1, Len(s)) = p

\* the truth value Python gives an optional string
NonEmptyString(s) == IF s = None THEN FALSE ELSE s # <<>>

\* determine_output_filename with the extension appended in every case
determine_output_filename_always_append(custom_name, name_hint) ==
    LET filename == IF NonEmptyString(custom_name) THEN Strip(custom_name)
                    ELSE IF NonEmptyString(name_hint)
                         THEN Strip(name_hint)
                    ELSE default_name
    IN  filename \o BibExtension

\* determine_output_filename(custom_name, bibliography_name)
determine_output_filename(custom_name, name_hint) ==
    LET filename == IF NonEmptyString(custom_name) THEN Strip(custom_name)
                    ELSE IF NonEmptyString(name_hint)
                         THEN Strip(name_hint)
                    ELSE default_name
    IN  IF EndsWith(filename, BibExtension) THEN filename
        ELSE filename \o BibExtension

\* app.py: custom_name=output_filename if output_filename.strip() else None
custom_name_of(name) ==
    IF Strip(name) # <<>> THEN name ELSE None

\* the file write_bibtex_file writes: after the header comments, one block
\* per item of bibtex_entries, in order: the key in a comment line and the
\* stripped record
bibtex_file(bibtex_entries) ==
    [i \in DOMAIN bibtex_entries |->
        <<bibtex_entries[i][1], Strip(bibtex_entries[i][2])>>]

\* the header comment lines of the LaTeX file, without their words
LatexHeader == <<"%", NL, "%", NL, NL>>

\* the file write_latex_and_bibtex_files writes for the document
latex_file(text) == LatexHeader \o text

\* f"{original_name}_standardized.tex" for an upload named m.tex
latex_filename ==
    <<"m", "_", "s", "t", "a", "n", "d", "a", "r", "d", "i", "z", "e", "d",
      ".", "t", "e", "x">>

(***************************************************************************)
(* Bounds and input alphabets                                              *)
(***************************************************************************)
MaxDocKeys == 2

\* sequences over set S of length lo..hi
SeqsOf(S, lo, hi) == UNION {[1..n -> S] : n \in lo..hi}

\* every ordering of a finite set, as a list without repetition
Orderings(S) ==
    {f \in [1..Cardinality(S) -> S] : \A i, j \in DOMAIN f : f[i] = f[j] => i = j}

KNum == <<"1", "2">>
KAuthorYear == <<"S", ":", "2", "0", "2", "0", "a", "b", "c">>
KArxiv == <<"2", "3", "0", "1", ".", "1", "2", "3", "4">>
KArxivPrefixed == <<"a", "r", "X", "i", "v", ":">> \o KArxiv
KUnknown == <<"f", "o", "o">>
KOther == <<"T", ":", "2", "0", "2", "1", "x", "y", "z">>
KAuthorYearOld == <<"S", ":", "2", "0", "1", "9", "a", "b", "c">>

\* the keys written in the documents of a run
DocKeys == {KNum, KAuthorYear, KAuthorYearOld, KArxiv, KArxivPrefixed, KUnknown}

\* a BibTeX record whose entry key is k
RecordOf(type, k) == <<"@">> \o type \o <<"{">> \o k \o <<",", "}">>

RecS == RecordOf(<<"a">>, KAuthorYear)
RecT == RecordOf(<<"a">>, KOther)

\* a response text that entry_key_pattern does not match
RecMalformed == <<"@", "a", "{", "}">>

\* the record the registry holds for a normalized key: the numeric id and
\* the two author-year keys name the same work
RegistryRecord(k) == IF k = KArxiv THEN RecT ELSE RecS

(***************************************************************************)
(* InspireHEPClient: one lookup, from the responses to what it returns     *)
(***************************************************************************)
\* a JSON value: content is the items of an array, the <<name, value>>
\* members of an object, empty otherwise; "invalid" is a body on which
\* response.json() raises ValueError
JValue(type, content) == [type |-> type, content |-> content]
JInvalid == JValue("invalid", <<>>)
JNull == JValue("null", <<>>)
JNumber == JValue("number", <<>>)
JArray(items) == JValue("array", items)
JObject(members) == JValue("object", members)

\* what session.get gives: a response, or a raised RequestException
TransportError ==
    [kind |-> "RequestException", status_code |-> 0, json |-> JInvalid,
     text |-> <<>>]
JsonResponse(status_code, json) ==
    [kind |-> "response", status_code |-> status_code, json |-> json,
     text |-> <<>>]
TextResponse(status_code, text) ==
    [kind |-> "response", status_code |-> status_code, json |-> JInvalid,
     text |-> text]
\* the request was not made
NoResponse ==
    [kind |-> "none", status_code |-> 0, json |-> JInvalid, text |-> <<>>]

\* how a call ends: it returns value, or raises exception
Return(value) == [exception |-> "none", value |-> value]
Raise(exception) == [exception |-> exception, value |-> None]

\* name is a member of the JSON object data
HasMember(data, name) ==
    \E i \in DOMAIN data.content : data.content[i][1] = name

\* data.get(name, default) on a JSON object
Member(data, name, default) ==
    IF HasMember(data, name)
    THEN data.content[CHOOSE i \in DOMAIN data.content :
                          data.content[i][1] = name][2]
    ELSE default

\* the truth value Python gives a parsed JSON value (an id is not zero)
Truthy(data) ==
    CASE data.type \in {"array", "object"} -> data.content # <<>>
      [] data.type = "number" -> TRUE
      [] OTHER -> FALSE

\* get_bibtex_by_inspirehep_id: the body of a 200 response, None otherwise
get_bibtex_by_inspirehep_id(response) ==
    IF response.kind = "RequestException" THEN Return(None)
    ELSE IF response.status_code = 200 THEN Return(response.text)
    ELSE Return(None)

\* search_by_bibtex_key and search_by_arxiv: the search request, the
\* parsing of its body, and the request for the record of the first hit;
\* only RequestException and the ValueError of response.json() are caught
search(response, record_response) ==
    IF response.kind = "RequestException" THEN Return(None)
    ELSE IF response.status_code # 200 THEN Return(None)
    ELSE IF response.json.type = "invalid" THEN Return(None)
    ELSE IF response.json.type # "object" THEN Raise("AttributeError")
    ELSE LET outer == Member(response.json, "hits", JObject(<<>>))
         IN  IF outer.type # "object" THEN Raise("AttributeError")
             ELSE LET hits == Member(outer, "hits", JArray(<<>>))
                  IN  IF ~Truthy(hits) THEN Return(None)
                      ELSE IF hits.type = "object" THEN Raise("KeyError")
                      ELSE IF hits.type # "array" THEN Raise("TypeError")
                      ELSE IF hits.content[1].type # "object"
                           THEN Raise("TypeError")
                      ELSE IF ~HasMember(hits.content[1], "id")
                           THEN Raise("KeyError")
                      ELSE get_bibtex_by_inspirehep_id(record_response)

\* the responses to the request for a record: the request fails, the
\* record is not found, the server fails, the record, a body that is not
\* a record
RecordResponses(k) ==
    {TransportError, TextResponse(404, <<>>), TextResponse(500, <<>>),
     TextResponse(200, RegistryRecord(k)), TextResponse(200, RecMalformed)}

\* the search result with one hit
OneHit == JObject(<<<<"hits", JObject(<<<<"hits",
              JArray(<<JObject(<<<<"id", JNumber>>>>)>>)>>>>)>>>>)

\* bodies of a search response that list no hit: not JSON, `{}`,
\* `{"hits": {}}`, `{"hits": {"hits": []}}`, `{"hits": []}`, `null`
BodiesWithoutHits ==
    {JInvalid,
     JObject(<<>>),
     JObject(<<<<"hits", JObject(<<>>)>>>>),
     JObject(<<<<"hits", JObject(<<<<"hits", JArray(<<>>)>>>>)>>>>),
     JObject(<<<<"hits", JArray(<<>>)>>>>),
     JNull}

\* the responses to a search request that end the lookup
SearchResponsesWithoutHits ==
    {TransportError, JsonResponse(500, JInvalid)}
        \cup {JsonResponse(200, body) : body \in BodiesWithoutHits}

\* the responses one lookup of key k can receive: by id a record
\* response; by search a search response and, after a hit, a record
\* response
Exchanges(by_id, k) ==
    IF by_id
    THEN {[search |-> NoResponse, record |-> r] : r \in RecordResponses(k)}
    ELSE {[search |-> s, record |-> NoResponse] :
             s \in SearchResponsesWithoutHits}
         \cup {[search |-> JsonResponse(200, OneHit), record |-> r] :
                  r \in RecordResponses(k)}

\* the method fetch_bibtex_entries calls for a key, applied to the
\* responses it receives
lookup(by_id, exchange) ==
    IF by_id THEN get_bibtex_by_inspirehep_id(exchange.record)
    ELSE search(exchange.search, exchange.record)

\* one citation command: keys joined by commas, optionally with a comment
\* that runs to the end of the line before the closing brace
CiteCommand(keys, commented) ==
    CitePrefix \o Join(keys, ",")
               \o (IF commented THEN <<"%", NL>> ELSE <<>>) \o <<"}">>

\* the citation commands that cite exactly n keys
CiteCommands(n) ==
    {CiteCommand(ks, c) : ks \in [1..n -> DocKeys], c \in BOOLEAN}

\* the texts made of citation commands that cite at most n keys in total
RECURSIVE DocumentsCiting(_)
DocumentsCiting(n) ==
    {<<>>} \cup
    UNION {{c \o rest : c \in CiteCommands(k), rest \in DocumentsCiting(n - k)} :
              k \in 1..n}

\* the texts a run starts from: those, and the texts whose one citation
\* command is commented out
Documents(n) ==
    DocumentsCiting(n) \cup {<<"%">> \o c : c \in CiteCommands(1)}

(***************************************************************************)
(* BibTeXGeneratorApp.process_latex_file, step by step                     *)
(***************************************************************************)
NoResult == [status |-> "running"]

\* a return of process_latex_file with a message and no file:
\* return message, None, None, ""
message_result(status) ==
    [status |-> status, latex_path |-> None, bibtex_path |-> None]

\* the except clause returning the paths of the files already written
error_result_with_written_paths(written) ==
    [status |-> "error",
     latex_path |-> IF DictHas(written, latex_filename)
                    THEN latex_filename ELSE None,
     bibtex_path |-> IF \E i \in DOMAIN written : written[i][1] # latex_filename
                     THEN written[CHOOSE i \in DOMAIN written :
                                     written[i][1] # latex_filename][1]
                     ELSE None]

\* the except clause of process_latex_file, the files in written being on
\* disk: return f"Error processing file: {str(e)}", None, None, ""
error_result(written) == message_result("error")

Init ==
    /\ pc = "read"
    /\ latex_content \in Documents(MaxDocKeys)
    /\ citations = <<>>
    /\ categorized_keys = process_keys(<<>>)
    /\ fetch_log = <<>>
    /\ raw_bibtex_entries = <<>>
    /\ deduplicated_entries = <<>>
    /\ key_mapping = <<>>
    /\ seen_keys = <<>>
    /\ updated_content = <<>>
    /\ replacements_made = 0
    /\ second_content = <<>>
    /\ second_replacements = 0
    /\ loop_index = 0
    /\ result = NoResult
    /\ http_log = <<>>
    /\ output_files = <<>>
    /\ output_filename = <<>>
    /\ bibliography_name = None
    /\ bib_filename = None

\* open(latex_file.name).read(): the text is read, or the exception is
\* caught and the run returns an error; a failure of the second read, in
\* process_uploaded_file, ends in the same state
ReadFile ==
    /\ pc = "read"
    /\ \E readable \in BOOLEAN :
          IF readable
          THEN /\ pc' = "start"
               /\ result' = result
          ELSE /\ pc' = "done"
               /\ result' = error_result(output_files)
    /\ UNCHANGED <<output_filename, bibliography_name, bib_filename, http_log,
                   output_files, latex_content, citations, categorized_keys,
                   fetch_log, raw_bibtex_entries, deduplicated_entries,
                   key_mapping, seen_keys, updated_content, replacements_made,
                   second_content, second_replacements, loop_index>>

\* process_latex_file going on to classify whatever list it is given
after_extraction_always_continues(order) ==
    [pc |-> "classify", result |-> NoResult]

\* process_latex_file after process_uploaded_file returned the list order:
\* `if not citations: return` ends the run, else it goes on
after_extraction(order) ==
    IF order = <<>>
    THEN [pc |-> "done", result |-> message_result("no_citations")]
    ELSE [pc |-> "classify", result |-> NoResult]

\* process_uploaded_file: extract_citations returns list(set(keys)), whose
\* order is not fixed; an empty list ends the run
ExtractCitations ==
    /\ pc = "start"
    /\ \E order \in Orderings(ExtractedKeySet(latex_content)) :
          /\ citations' = order
          /\ pc' = after_extraction(order).pc
          /\ result' = after_extraction(order).result
    /\ bibliography_name' = extract_bibliography_name(latex_content)
    /\ UNCHANGED <<output_filename, bib_filename, http_log, output_files,
                   latex_content, categorized_keys, fetch_log,
                   raw_bibtex_entries, deduplicated_entries, key_mapping,
                   seen_keys, updated_content, replacements_made,
                   second_content, second_replacements, loop_index>>

\* key_identifier.process_keys(citations)
ProcessKeys ==
    /\ pc = "classify"
    /\ categorized_keys' = process_keys(citations)
    /\ pc' = "fetch"
    /\ UNCHANGED <<output_filename, bibliography_name, bib_filename, http_log,
                   output_files, latex_content, citations, fetch_log,
                   raw_bibtex_entries, deduplicated_entries, key_mapping,
                   seen_keys, updated_content, replacements_made,
                   second_content, second_replacements, loop_index, result>>

\* the three loops of fetch_bibtex_entries with the arXiv loop first
lookup_order_arxiv_first(categorized) ==
    categorized.arxiv \o categorized.inspirehep \o categorized.inspirehep_bibtex

\* the keys fetch_bibtex_entries looks up, in the order of its three loops
lookup_order(categorized) ==
    categorized.inspirehep \o categorized.inspirehep_bibtex \o categorized.arxiv

\* lookup i of fetch_bibtex_entries is made by get_bibtex_by_inspirehep_id
called_by_id(categorized, i) == i <= Len(categorized.inspirehep)

\* one iteration of a loop of fetch_bibtex_entries: the lookup receives
\* its responses; what it returns is stored under the looked-up key when
\* it is a record; an exception it raises ends fetch_bibtex_entries and
\* is caught by process_latex_file
FetchOne ==
    /\ pc = "fetch"
    /\ loop_index < Len(lookup_order(categorized_keys))
    /\ LET k == lookup_order(categorized_keys)[loop_index + 1]
           by_id == called_by_id(categorized_keys, loop_index + 1)
       IN  \E exchange \in Exchanges(by_id, k) :
              LET outcome == lookup(by_id, exchange)
              IN  /\ http_log' = <<[key |-> k, search |-> exchange.search,
                                    record |-> exchange.record,
                                    outcome |-> outcome]>>
                  /\ IF outcome.exception # "none"
                     THEN /\ pc' = "done"
                          /\ result' = error_result(output_files)
                          /\ UNCHANGED <<fetch_log, raw_bibtex_entries,
                                         loop_index>>
                     ELSE /\ fetch_log' = Append(fetch_log, <<k, outcome.value>>)
                          /\ raw_bibtex_entries' =
                                IF NonEmptyString(outcome.value)
                                THEN DictSet(raw_bibtex_entries, k,
                                             outcome.value)
                                ELSE raw_bibtex_entries
                          /\ loop_index' = loop_index + 1
                          /\ UNCHANGED <<pc, result>>
    /\ UNCHANGED <<output_filename, bibliography_name, bib_filename,
                   output_files, latex_content, citations, categorized_keys,
                   deduplicated_entries, key_mapping, seen_keys,
                   updated_content, replacements_made, second_content,
                   second_replacements>>

\* fetch_bibtex_entries returns; process_latex_file stops when nothing
\* was fetched
FetchReturn ==
    /\ pc = "fetch"
    /\ loop_index = Len(lookup_order(categorized_keys))
    /\ loop_index' = 0
    /\ http_log' = <<>>
    /\ IF raw_bibtex_entries = <<>>
       THEN /\ pc' = "done"
            /\ result' = message_result("no_entries")
       ELSE /\ pc' = "dedup"
            /\ result' = result
    /\ UNCHANGED <<output_filename, bibliography_name, bib_filename,
                   output_files, latex_content, citations, categorized_keys,
                   fetch_log, raw_bibtex_entries, deduplicated_entries,
                   key_mapping, seen_keys, updated_content, replacements_made,
                   second_content, second_replacements>>

\* dedup_step with the duplicate branch mapping the alias to the first
\* original key instead of the standard key
dedup_step_alias_to_first(st, original_key, bibtex_entry) ==
    LET standard_key == standard_key_of(original_key, bibtex_entry)
    IN  IF DictHas(st.seen_keys, standard_key)
        THEN [st EXCEPT !.key_mapping =
                 DictSet(@, original_key, DictGet(st.seen_keys, standard_key))]
        ELSE [deduplicated_entries |->
                  DictSet(st.deduplicated_entries, standard_key, bibtex_entry),
              key_mapping |->
                  DictSet(st.key_mapping, original_key, standard_key),
              seen_keys |->
                  DictSet(st.seen_keys, standard_key, original_key)]

\* dedup_step skipping an entry whose key cannot be extracted
dedup_step_skip_malformed(st, original_key, bibtex_entry) ==
    LET standard_key == extract_bibtex_key(bibtex_entry)
    IN  IF standard_key = None THEN st
        ELSE IF DictHas(st.seen_keys, standard_key)
        THEN [st EXCEPT !.key_mapping =
                            DictSet(@, original_key, standard_key)]
        ELSE [deduplicated_entries |->
                  DictSet(st.deduplicated_entries, standard_key, bibtex_entry),
              key_mapping |->
                  DictSet(st.key_mapping, original_key, standard_key),
              seen_keys |->
                  DictSet(st.seen_keys, standard_key, original_key)]

\* dedup_step with the duplicate branch storing the later entry
dedup_step_last_wins(st, original_key, bibtex_entry) ==
    LET standard_key == standard_key_of(original_key, bibtex_entry)
    IN  [deduplicated_entries |->
             DictSet(st.deduplicated_entries, standard_key, bibtex_entry),
         key_mapping |->
             DictSet(st.key_mapping, original_key, standard_key),
         seen_keys |->
             IF DictHas(st.seen_keys, standard_key) THEN st.seen_keys
             ELSE DictSet(st.seen_keys, standard_key, original_key)]

\* dedup_step with the duplicate branch doing nothing
dedup_step_forget_alias(st, original_key, bibtex_entry) ==
    LET standard_key == standard_key_of(original_key, bibtex_entry)
    IN  IF DictHas(st.seen_keys, standard_key) THEN st
        ELSE [deduplicated_entries |->
                  DictSet(st.deduplicated_entries, standard_key, bibtex_entry),
              key_mapping |->
                  DictSet(st.key_mapping, original_key, standard_key),
              seen_keys |->
                  DictSet(st.seen_keys, standard_key, original_key)]

\* dedup_step with the duplicate branch mapping the alias to itself
dedup_step_alias_to_itself(st, original_key, bibtex_entry) ==
    LET standard_key == standard_key_of(original_key, bibtex_entry)
    IN  IF DictHas(st.seen_keys, standard_key)
        THEN [st EXCEPT !.key_mapping =
                            DictSet(@, original_key, original_key)]
        ELSE [deduplicated_entries |->
                  DictSet(st.deduplicated_entries, standard_key, bibtex_entry),
              key_mapping |->
                  DictSet(st.key_mapping, original_key, standard_key),
              seen_keys |->
                  DictSet(st.seen_keys, standard_key, original_key)]

\* the state of process_and_deduplicate after one more item of
\* bibtex_entries
dedup_step(st, original_key, bibtex_entry) ==
    LET standard_key == standard_key_of(original_key, bibtex_entry)
    IN  IF DictHas(st.seen_keys, standard_key)
        THEN [st EXCEPT !.key_mapping =
                            DictSet(@, original_key, standard_key)]
        ELSE [deduplicated_entries |->
                  DictSet(st.deduplicated_entries, standard_key, bibtex_entry),
              key_mapping |->
                  DictSet(st.key_mapping, original_key, standard_key),
              seen_keys |->
                  DictSet(st.seen_keys, standard_key, original_key)]

\* one iteration of the loop of process_and_deduplicate
DedupStep ==
    /\ pc = "dedup"
    /\ loop_index < Len(raw_bibtex_entries)
    /\ LET item == raw_bibtex_entries[loop_index + 1]
           st == dedup_step([deduplicated_entries |-> deduplicated_entries,
                             key_mapping |-> key_mapping,
                             seen_keys |-> seen_keys], item[1], item[2])
       IN  /\ deduplicated_entries' = st.deduplicated_entries
           /\ key_mapping' = st.key_mapping
           /\ seen_keys' = st.seen_keys
    /\ loop_index' = loop_index + 1
    /\ UNCHANGED <<output_filename, bibliography_name, bib_filename, http_log,
                   output_files, pc, latex_content, citations,
                   categorized_keys, fetch_log, raw_bibtex_entries,
                   updated_content, replacements_made, second_content,
                   second_replacements, result>>

\* process_and_deduplicate returns
DedupReturn ==
    /\ pc = "dedup"
    /\ loop_index = Len(raw_bibtex_entries)
    /\ pc' = "rewrite"
    /\ loop_index' = 0
    /\ UNCHANGED <<output_filename, bibliography_name, bib_filename, http_log,
                   output_files, latex_content, citations, categorized_keys,
                   fetch_log, raw_bibtex_entries, deduplicated_entries,
                   key_mapping, seen_keys, updated_content, replacements_made,
                   second_content, second_replacements, result>>

\* determine_output_filename, then
\* create_standardized_latex(original_latex_content, key_mapping, path):
\* the rewritten text is written to the LaTeX path, or the write raises
\* and process_latex_file returns an error
CreateStandardizedLatex ==
    /\ pc = "rewrite"
    /\ bib_filename' =
          determine_output_filename(custom_name_of(output_filename),
                                    bibliography_name)
    /\ LET r == standardized_latex(latex_content, key_mapping)
       IN  /\ updated_content' = r.text
           /\ replacements_made' = r.made
           /\ \E written \in BOOLEAN :
                 IF written
                 THEN /\ output_files' =
                            DictSet(output_files, latex_filename, r.text)
                      /\ pc' = "write"
                      /\ result' = result
                 ELSE /\ output_files' = output_files
                      /\ pc' = "done"
                      /\ result' = error_result(output_files)
    /\ UNCHANGED <<output_filename, bibliography_name, http_log,
                   latex_content, citations, categorized_keys, fetch_log,
                   raw_bibtex_entries, deduplicated_entries, key_mapping,
                   seen_keys, second_content, second_replacements,
                   loop_index>>

\* write_latex_and_bibtex_files and the summaries: the bibliography file
\* is written, then the LaTeX file with the text read back from the LaTeX
\* path; the run returns the two paths and a status message that lists
\* the unknown keys; a write that raises makes it return an error
WriteFiles ==
    /\ pc = "write"
    /\ pc' = "done"
    /\ \E failure \in {"none", "bibtex", "latex"} :
          LET with_bibtex == DictSet(output_files, bib_filename,
                                     bibtex_file(deduplicated_entries))
              with_both == DictSet(with_bibtex, latex_filename,
                              latex_file(DictGet(output_files, latex_filename)))
          IN  /\ output_files' =
                    CASE failure = "bibtex" -> output_files
                      [] failure = "latex" -> with_bibtex
                      [] failure = "none" -> with_both
              /\ result' =
                    IF failure # "none" THEN error_result(output_files')
                    ELSE [status |-> "ok",
                          unknown_keys |-> categorized_keys.unknown,
                          latex |-> updated_content,
                          bibtex |-> deduplicated_entries,
                          replacements |-> replacements_made,
                          latex_path |-> latex_filename,
                          bibtex_path |-> bib_filename]
    /\ UNCHANGED <<output_filename, bibliography_name, bib_filename, http_log,
                   latex_content, citations, categorized_keys, fetch_log,
                   raw_bibtex_entries, deduplicated_entries, key_mapping,
                   seen_keys, updated_content, replacements_made,
                   second_content, second_replacements, loop_index>>

Next ==
    \/ ReadFile
    \/ ExtractCitations
    \/ ProcessKeys
    \/ FetchOne
    \/ FetchReturn
    \/ DedupStep
    \/ DedupReturn
    \/ CreateStandardizedLatex
    \/ WriteFiles

Spec == Init /\ [][Next]_vars

TypeOK ==
    /\ pc \in {"read", "start", "classify", "fetch", "dedup", "rewrite", "write", "done",
              "rewritten"}
    /\ replacements_made \in Nat

(***************************************************************************)
(* process_and_deduplicate on its own: any dict of fetched entries         *)
(***************************************************************************)
MaxPairs == 3

RecS2 == RecordOf(<<"b">>, KAuthorYear)
RecNum == RecordOf(<<"a">>, KNum)

CanonKeys == {KNum, KAuthorYear, KArxiv, KUnknown}
CanonRecords == {RecS, RecS2, RecT, RecNum, RecMalformed}

\* the dicts with at most n items: distinct keys, any records
CanonInputs(n) ==
    {d \in SeqsOf(CanonKeys \X CanonRecords, 0, n) :
        \A i, j \in DOMAIN d : d[i][1] = d[j][1] => i = j}

InitCanon ==
    /\ pc = "dedup"
    /\ raw_bibtex_entries \in CanonInputs(MaxPairs)
    /\ latex_content = <<>>
    /\ citations = <<>>
    /\ categorized_keys = process_keys(<<>>)
    /\ fetch_log = <<>>
    /\ deduplicated_entries = <<>>
    /\ key_mapping = <<>>
    /\ seen_keys = <<>>
    /\ updated_content = <<>>
    /\ replacements_made = 0
    /\ second_content = <<>>
    /\ second_replacements = 0
    /\ loop_index = 0
    /\ result = NoResult
    /\ http_log = <<>>
    /\ output_files = <<>>
    /\ output_filename = <<>>
    /\ bibliography_name = None
    /\ bib_filename = None

NextCanon ==
    \/ DedupStep
    \/ DedupReturn

SpecCanon == InitCanon /\ [][NextCanon]_vars

\* the entry key a record was built with, None for a record without one
EmbeddedKey(rec) ==
    LET built == {k \in CanonKeys \cup {KOther} :
                     \E t \in {<<"a">>, <<"b">>} : rec = RecordOf(t, k)}
    IN  IF built = {} THEN None ELSE CHOOSE k \in built : TRUE

\* number of items of dict d stored under key k
CountKey(d, k) == Cardinality({n \in DOMAIN d : d[n][1] = k})

\* two distinct original keys of the input whose records embed the same key
AliasPair(i, j) ==
    /\ i # j
    /\ EmbeddedKey(raw_bibtex_entries[i][2]) # None
    /\ EmbeddedKey(raw_bibtex_entries[i][2]) = EmbeddedKey(raw_bibtex_entries[j][2])

\* C1: when process_and_deduplicate has returned, any two distinct original
\* keys whose records embed the same canonical key c are both mapped to c
\* by key_mapping, and deduplicated_entries holds exactly one entry for c.
C1_DedupInvariant ==
    pc = "rewrite" =>
        \A i, j \in DOMAIN raw_bibtex_entries :
            AliasPair(i, j) =>
                LET c == EmbeddedKey(raw_bibtex_entries[i][2])
                    k1 == raw_bibtex_entries[i][1]
                    k2 == raw_bibtex_entries[j][1]
                IN  /\ CountKey(deduplicated_entries, c) = 1
                    /\ CountKey(key_mapping, k1) = 1
                    /\ CountKey(key_mapping, k2) = 1
                    /\ DictGet(key_mapping, k1) = c
                    /\ DictGet(key_mapping, k2) = c

\* three aliases of one work were merged into a single entry next to an
\* entry of another work
C1_Witness ==
    /\ pc = "rewrite"
    /\ Len(raw_bibtex_entries) = 3
    /\ \E i, j \in DOMAIN raw_bibtex_entries :
          /\ AliasPair(i, j)
          /\ raw_bibtex_entries[i][2] # raw_bibtex_entries[j][2]
    /\ Len(deduplicated_entries) = 2
    /\ Len(key_mapping) = 3

(***************************************************************************)
(* The run as a whole: raw keys, lookups and the rewritten document        *)
(***************************************************************************)
\* the keys of type t among the extracted keys, as written in the document
RECURSIVE raw_keys_of_type(_, _)
raw_keys_of_type(keys, t) ==
    IF keys = <<>> THEN <<>>
    ELSE IF identify_key_type(keys[1]) = t
         THEN <<keys[1]>> \o raw_keys_of_type(Tail(keys), t)
         ELSE raw_keys_of_type(Tail(keys), t)

\* the raw key each lookup of fetch_bibtex_entries was made for:
\* lookup i looks up the normalized form of RawLookupOrder[i]
RawLookupOrder ==
    raw_keys_of_type(citations, INSPIREHEP)
        \o raw_keys_of_type(citations, INSPIREHEP_BIBTEX)
        \o raw_keys_of_type(citations, ARXIV)

\* lookup i of the run returned a record
Resolved(i) == i \in DOMAIN fetch_log /\ fetch_log[i][2] # None

\* the keys of the citation commands of a text, comments not stripped
MarkerKeySet(text) ==
    LET matches == FindallCite(text, 1)
    IN  Range(Concat([i \in DOMAIN matches |-> PayloadKeys(matches[i])]))

\* key r is still cited by the text: the extractor returns it, or it is
\* one of the keys of a citation command of the text
CitedIn(r, text) == r \in ExtractedKeySet(text) \/ r \in MarkerKeySet(text)

Canonicalized == pc \in {"rewrite", "write", "done"}

\* the canonical key of the record lookup i returned: its entry key, or
\* the raw key itself when the record has none
CanonicalKeyOf(i) ==
    IF EmbeddedKey(fetch_log[i][2]) = None THEN RawLookupOrder[i]
    ELSE EmbeddedKey(fetch_log[i][2])

\* C2: once canonicalization is done, every raw key whose lookup succeeded
\* is, exactly as written in the document, a key of key_mapping, mapped to
\* the entry key of its record (to itself when the record has none).
C2_RenameMapKeyedByRawKeys ==
    Canonicalized =>
        \A i \in DOMAIN fetch_log :
            Resolved(i) =>
                /\ DictHas(key_mapping, RawLookupOrder[i])
                /\ DictGet(key_mapping, RawLookupOrder[i]) = CanonicalKeyOf(i)

\* the extracted key r was classified unknown, or its lookup returned None
Unresolved(r) ==
    \/ identify_key_type(r) = UNKNOWN
    \/ \E i \in DOMAIN fetch_log : RawLookupOrder[i] = r /\ ~Resolved(i)

\* C3: in a completed run, an extracted key that is unknown or whose lookup
\* returned None is not a key of key_mapping, is still cited verbatim by
\* the rewritten document, and is listed as unknown when it is unknown.
C3_UnresolvedKeysLeftAlone ==
    result.status = "ok" =>
        \A r \in Range(citations) :
            Unresolved(r) =>
                /\ ~DictHas(key_mapping, r)
                /\ CitedIn(r, updated_content)
                /\ identify_key_type(r) = UNKNOWN
                       => r \in Range(result.unknown_keys)

\* C4: in a completed run, every key the extractor returns for the document
\* is a key of key_mapping or is still cited unchanged by the rewritten
\* document.
C4_NoDataLoss ==
    result.status = "ok" =>
        \A r \in ExtractedKeySet(latex_content) :
            DictHas(key_mapping, r) \/ CitedIn(r, updated_content)

\* C5: in a completed run, every resolved key is replaced by its canonical
\* key: the rewritten document cites the canonical key, and extracting it
\* again returns no key that was resolved to a different canonical key.
C5_EveryCitationCanonical ==
    result.status = "ok" =>
        \A i \in DOMAIN fetch_log :
            Resolved(i) =>
                LET r == RawLookupOrder[i]
                    c == CanonicalKeyOf(i)
                IN  /\ c \in ExtractedKeySet(updated_content)
                    /\ r # c => r \notin ExtractedKeySet(updated_content)

(***************************************************************************)
(* create_standardized_latex on its own: any text, any key mapping,        *)
(* applied once and then once more to its own output                       *)
(***************************************************************************)
MaxRwFrags == 4

KA == <<"a">>
KB == <<"b">>
KC == <<"c">>

\* what the text after the first citation command is made of
RwFrags == {CitePrefix, <<"}">>, <<",">>, <<" ">>, KA, KB}

\* a text: nothing or a comment sign, then an opening citation command,
\* then at most n fragments
RwDocuments(n) ==
    {pre \o CitePrefix \o Concat(fs) :
        pre \in {<<>>, <<"%">>}, fs \in SeqsOf(RwFrags, 0, n)}

\* key mappings over the keys a and b
RwMappings ==
    {<<>>,
     <<<<KA, KB>>>>,
     <<<<KA, KA>>>>,
     <<<<KA, KB>>, <<KB, KC>>>>,
     <<<<KA, KC>>, <<KB, KC>>>>}

InitRewrite ==
    /\ pc = "rewrite"
    /\ latex_content \in RwDocuments(MaxRwFrags)
    /\ key_mapping \in RwMappings
    /\ citations = <<>>
    /\ categorized_keys = process_keys(<<>>)
    /\ fetch_log = <<>>
    /\ raw_bibtex_entries = <<>>
    /\ deduplicated_entries = <<>>
    /\ seen_keys = <<>>
    /\ updated_content = <<>>
    /\ replacements_made = 0
    /\ second_content = <<>>
    /\ second_replacements = 0
    /\ loop_index = 0
    /\ result = NoResult
    /\ http_log = <<>>
    /\ output_files = <<>>
    /\ output_filename = <<>>
    /\ bibliography_name = None
    /\ bib_filename = None

\* create_standardized_latex(updated_content, key_mapping, path): the
\* rewritten text is rewritten again with the same mapping
RewriteAgain ==
    /\ pc = "write"
    /\ LET r == standardized_latex(updated_content, key_mapping)
       IN  /\ second_content' = r.text
           /\ second_replacements' = r.made
    /\ pc' = "rewritten"
    /\ UNCHANGED <<output_filename, bibliography_name, bib_filename, http_log,
                   output_files, latex_content, citations, categorized_keys,
                   fetch_log, raw_bibtex_entries, deduplicated_entries,
                   key_mapping, seen_keys, updated_content, replacements_made,
                   loop_index, result>>

NextRewrite ==
    \/ CreateStandardizedLatex
    \/ RewriteAgain

SpecRewrite == InitRewrite /\ [][NextRewrite]_vars

(***************************************************************************)
(* Properties of create_standardized_latex                                 *)
(***************************************************************************)
Rewritten == pc \in {"write", "rewritten"}

\* the texts before, between and after the citation commands of s:
\* one more text than there are commands
RECURSIVE OutsideText(_, _, _)
OutsideText(s, i, start) ==
    IF i > Len(s) THEN <<SubSeq(s, start, Len(s))>>
    ELSE LET e == CiteMatchEnd(s, i)
         IN  IF e = 0 THEN OutsideText(s, i + 1, start)
             ELSE <<SubSeq(s, start, i - 1)>> \o OutsideText(s, e + 1, e + 1)

NotParsed == [ok |-> FALSE, payloads |-> <<>>]

\* reads text out as gaps[1], a citation command, gaps[2], a citation
\* command, ..., gaps[n]: whether it has that shape, and the payloads of
\* the commands found between the gaps
RECURSIVE MarkersBetween(_, _)
MarkersBetween(out, gaps) ==
    IF ~StartsAt(out, 1, gaps[1]) THEN NotParsed
    ELSE LET rest == Tail_(out, Len(gaps[1]) + 1)
         IN  IF Len(gaps) = 1 THEN [ok |-> rest = <<>>, payloads |-> <<>>]
             ELSE IF ~StartsAt(rest, 1, CitePrefix) THEN NotParsed
             ELSE LET close == Find(rest, "}", 7)
                  IN  IF close = 0 THEN NotParsed
                      ELSE LET r == MarkersBetween(Tail_(rest, close + 1),
                                                   Tail(gaps))
                           IN  [ok |-> r.ok,
                                payloads |-> <<SubSeq(rest, 7, close - 1)>>
                                                 \o r.payloads]

\* the rewritten text read against the outside texts of the original
ParsedOutput == MarkersBetween(updated_content, OutsideText(latex_content, 1, 1))

\* the key a trimmed segment is rewritten to
Renamed(key) == IF DictHas(key_mapping, key) THEN DictGet(key_mapping, key) ELSE key

\* C6 as stated: rewriting the rewritten text again with the same mapping
\* makes no replacement, for every text and every mapping.
C6_SecondPassReplacesNothing ==
    pc = "rewritten" => second_replacements = 0

\* no value of the mapping is one of its keys
NoValueIsKey == DictValues(key_mapping) \cap DictKeys(key_mapping) = {}

\* C6 (amended): when no value of the mapping is itself a key of the
\* mapping, rewriting the rewritten text again with the same mapping makes
\* no replacement.
C6_SecondPassReplacesNothingUnlessValueIsKey ==
    (pc = "rewritten" /\ NoValueIsKey) => second_replacements = 0

\* a first pass that replaced keys, a second pass that found none
C6_Witness ==
    /\ pc = "rewritten"
    /\ NoValueIsKey
    /\ replacements_made >= 2
    /\ second_replacements = 0
    /\ second_content = updated_content

\* C7: the rewritten text is the original text with each citation command
\* replaced by one citation command: the texts before, between and after
\* the commands, comment text included, are the same characters.
C7_OutsideTextUnchanged ==
    Rewritten => ParsedOutput.ok

\* a rewritten command with a comment sign before it and text after it
C7_Witness ==
    /\ pc = "write"
    /\ Len(OutsideText(latex_content, 1, 1)) = 2
    /\ OutsideText(latex_content, 1, 1)[1] = <<"%">>
    /\ OutsideText(latex_content, 1, 1)[2] # <<>>
    /\ replacements_made >= 1
    /\ updated_content # latex_content

\* the segments of an emitted payload
EmittedKeys(payload) == IF payload = <<>> THEN <<>> ELSE Split(payload, ",")

\* the emitted payload holds, in order, one key for every segment of the
\* original payload that is not empty once trimmed
EmittedPerNonEmptySegment(inPayload, outPayload) ==
    LET segs == Split(inPayload, ",")
        kept == {j \in DOMAIN segs : Strip(segs[j]) # <<>>}
        rank(j) == Cardinality({i \in kept : i <= j})
        outs == EmittedKeys(outPayload)
    IN  /\ Len(outs) = Cardinality(kept)
        /\ \A j \in kept : outs[rank(j)] = Renamed(Strip(segs[j]))

\* the emitted payload holds, in order, one key for every segment of the
\* original payload
EmittedPerSegment(inPayload, outPayload) ==
    LET segs == Split(inPayload, ",")
        outs == Split(outPayload, ",")
    IN  /\ Len(outs) = Len(segs)
        /\ \A j \in DOMAIN segs : outs[j] = Renamed(Strip(segs[j]))

\* C8 as stated: every citation command is emitted as \cite{ + keys joined
\* by commas + }, with one key per comma-separated segment of the payload,
\* in order: the renamed key when the trimmed segment is a key of the
\* mapping, the trimmed segment otherwise.
C8_OneKeyPerSegment ==
    Rewritten =>
        LET ins == FindallCite(latex_content, 1)
        IN  /\ ParsedOutput.ok
            /\ \A k \in DOMAIN ins :
                   EmittedPerSegment(ins[k], ParsedOutput.payloads[k])

\* C8 (amended): the same, with one key per segment that is not empty
\* after trimming; segments that are empty after trimming are dropped.
C8_OneKeyPerNonEmptySegment ==
    Rewritten =>
        LET ins == FindallCite(latex_content, 1)
        IN  /\ ParsedOutput.ok
            /\ Len(ParsedOutput.payloads) = Len(ins)
            /\ \A k \in DOMAIN ins :
                   EmittedPerNonEmptySegment(ins[k], ParsedOutput.payloads[k])

\* a command with a replaced key, an untrimmed segment and a dropped
\* empty segment
C8_Witness ==
    /\ pc = "write"
    /\ replacements_made >= 1
    /\ \E k \in DOMAIN FindallCite(latex_content, 1) :
          LET segs == Split(FindallCite(latex_content, 1)[k], ",")
          IN  /\ \E j \in DOMAIN segs : Strip(segs[j]) = <<>>
              /\ \E j \in DOMAIN segs : Strip(segs[j]) # <<>> /\ Strip(segs[j]) # segs[j]
              /\ \E j \in DOMAIN segs : DictHas(key_mapping, Strip(segs[j]))

\* the segments of the citation commands of the original text, as
\* <<command, segment>> positions
SegmentPositions ==
    LET ins == FindallCite(latex_content, 1)
    IN  {p \in (DOMAIN ins) \X (1..Len(latex_content)) :
            p[2] \in DOMAIN Split(ins[p[1]], ",")}

SegmentAt(p) == Strip(Split(FindallCite(latex_content, 1)[p[1]], ",")[p[2]])

\* C9: replacements_made is the number of segments whose trimmed text is
\* a key of the mapping; a segment that is left as it was is not counted.
C9_CountsSuccessfulLookups ==
    Rewritten =>
        replacements_made =
            Cardinality({p \in SegmentPositions : DictHas(key_mapping, SegmentAt(p))})

\* a text where one key was replaced and another one was left as it was
C9_Witness ==
    /\ pc = "write"
    /\ replacements_made = 1
    /\ Cardinality({p \in SegmentPositions : SegmentAt(p) # <<>>}) = 2
    /\ \E p \in SegmentPositions :
          SegmentAt(p) # <<>> /\ ~DictHas(key_mapping, SegmentAt(p))

(***************************************************************************)
(* extract_citations on its own: any text                                  *)
(***************************************************************************)
MaxExFrags == 5

\* what the texts given to the extractor are made of
ExFrags == {CiteCommand(<<KA>>, FALSE), CiteCommand(<<KB>>, FALSE),
            CitePrefix, <<"}">>, <<"%">>, <<BSL>>, <<NL>>, KA}

\* the texts made of at most n fragments
ExDocuments(n) == {Concat(fs) : fs \in SeqsOf(ExFrags, 0, n)}

InitExtract ==
    /\ pc = "start"
    /\ latex_content \in ExDocuments(MaxExFrags)
    /\ citations = <<>>
    /\ categorized_keys = process_keys(<<>>)
    /\ fetch_log = <<>>
    /\ raw_bibtex_entries = <<>>
    /\ deduplicated_entries = <<>>
    /\ key_mapping = <<>>
    /\ seen_keys = <<>>
    /\ updated_content = <<>>
    /\ replacements_made = 0
    /\ second_content = <<>>
    /\ second_replacements = 0
    /\ loop_index = 0
    /\ result = NoResult
    /\ http_log = <<>>
    /\ output_files = <<>>
    /\ output_filename = <<>>
    /\ bibliography_name = None
    /\ bib_filename = None

NextExtract == ExtractCitations

SpecExtract == InitExtract /\ [][NextExtract]_vars

Extracted == pc \in {"classify", "done"}

\* position j of the text holds a '%' that is not immediately preceded
\* by a backslash
CommentStart(text, j) ==
    /\ text[j] = "%"
    /\ j = 1 \/ text[j - 1] # BSL

\* position i is in a comment: on its line, at or after a comment start
InComment(text, i) ==
    \E j \in 1..i :
        /\ CommentStart(text, j)
        /\ \A m \in j..i : text[m] # NL

\* the characters of the text from position i on that are not in a comment
RECURSIVE Uncommented(_, _)
Uncommented(text, i) ==
    IF i > Len(text) THEN <<>>
    ELSE IF InComment(text, i) THEN Uncommented(text, i + 1)
    ELSE <<text[i]>> \o Uncommented(text, i + 1)

\* the positions where key k is written in the text
Occurrences(text, k) == {i \in 1..Len(text) : StartsAt(text, i, k)}

\* key k is written in the text, and only inside comments
OnlyInComments(text, k) ==
    /\ Occurrences(text, k) # {}
    /\ \A i \in Occurrences(text, k) : InComment(text, i)

\* C10: the keys extract_citations returns are the keys of the citation
\* commands of the text without its comments, a comment being the span
\* from the first '%' of a line that is not immediately preceded by a
\* backslash to the end of that line; a key written only inside comments
\* is not returned.
C10_CommentsStripped ==
    Extracted =>
        /\ Range(citations) = MarkerKeySet(Uncommented(latex_content, 1))
        /\ \A k \in {KA, KB} :
               OnlyInComments(latex_content, k) => k \notin Range(citations)

\* a line with an escaped '%', a cited key and then a comment holding a
\* citation of another key: only the first key is returned
C10_Witness ==
    /\ pc = "classify"
    /\ latex_content = <<BSL, "%">> \o CiteCommand(<<KA>>, FALSE)
                           \o <<"%">> \o CiteCommand(<<KB>>, FALSE)
    /\ citations = <<KA>>

(***************************************************************************)
(* extract_citations on its own: the segments of the citation commands     *)
(***************************************************************************)
MaxSegFrags == 6

\* what the text after the first citation command is made of
SegFrags == {CitePrefix, <<"}">>, <<",">>, <<" ">>, KA, KB}

\* a text: an opening citation command, then at most n fragments
SegDocuments(n) == {CitePrefix \o Concat(fs) : fs \in SeqsOf(SegFrags, 0, n)}

InitSegments ==
    /\ pc = "start"
    /\ latex_content \in SegDocuments(MaxSegFrags)
    /\ citations = <<>>
    /\ categorized_keys = process_keys(<<>>)
    /\ fetch_log = <<>>
    /\ raw_bibtex_entries = <<>>
    /\ deduplicated_entries = <<>>
    /\ key_mapping = <<>>
    /\ seen_keys = <<>>
    /\ updated_content = <<>>
    /\ replacements_made = 0
    /\ second_content = <<>>
    /\ second_replacements = 0
    /\ loop_index = 0
    /\ result = NoResult
    /\ http_log = <<>>
    /\ output_files = <<>>
    /\ output_filename = <<>>
    /\ bibliography_name = None
    /\ bib_filename = None

NextSegments == ExtractCitations

SpecSegments == InitSegments /\ [][NextSegments]_vars

\* the comma-separated segments of a payload: the maximal comma-free spans
\* between the start, the commas and the end of the payload, empty ones
\* included
Segments(payload) ==
    {SubSeq(payload, ab[1], ab[2]) :
        ab \in {x \in (1..(Len(payload) + 1)) \X (0..Len(payload)) :
                   /\ x[2] >= x[1] - 1
                   /\ x[1] = 1 \/ payload[x[1] - 1] = ","
                   /\ x[2] = Len(payload) \/ payload[x[2] + 1] = ","
                   /\ \A m \in x[1]..x[2] : payload[m] # ","}}

\* a text without its surrounding whitespace: from its first to its last
\* character that is not whitespace
Trimmed(s) ==
    LET ns == {i \in DOMAIN s : s[i] \notin Whitespace}
    IN  IF ns = {} THEN <<>>
        ELSE SubSeq(s, CHOOSE i \in ns : \A j \in ns : i <= j,
                       CHOOSE i \in ns : \A j \in ns : i >= j)

\* the non-empty trimmed segments of the citation commands of the text
\* without its comments
TrimmedSegments(text) ==
    LET payloads == FindallCite(Uncommented(text, 1), 1)
    IN  UNION {{Trimmed(seg) : seg \in Segments(payloads[i])} :
                  i \in DOMAIN payloads} \ {<<>>}

\* C11: the list extract_citations returns holds exactly the non-empty,
\* whitespace-trimmed, comma-separated segments of the citation commands of
\* the comment-stripped text, each distinct string once; empty segments and
\* an empty command contribute nothing.
C11_ExactlyTheTrimmedSegments ==
    Extracted =>
        /\ Range(citations) = TrimmedSegments(latex_content)
        /\ \A i, j \in DOMAIN citations : citations[i] = citations[j] => i = j
        /\ <<>> \notin Range(citations)

\* a command with an empty segment, a segment with surrounding whitespace
\* and a key cited twice: the key is returned once
C11_Witness ==
    /\ pc = "classify"
    /\ citations = <<KA>>
    /\ LET payloads == FindallCite(latex_content, 1)
       IN  /\ Len(payloads) = 1
           /\ <<>> \in Segments(payloads[1])
           /\ KA \in Segments(payloads[1])
           /\ \E seg \in Segments(payloads[1]) : seg # KA /\ Trimmed(seg) = KA

(***************************************************************************)
(* Two runs on the same document and the same registry answers             *)
(***************************************************************************)
\* fetch_bibtex_entries as a whole: the dict built by looking up keys in
\* order, answer[k] being what the lookup of k returns
RECURSIVE fetch_all(_, _, _)
fetch_all(keys, answer, entries) ==
    IF keys = <<>> THEN entries
    ELSE fetch_all(Tail(keys), answer,
                   IF answer[keys[1]] # None
                   THEN DictSet(entries, keys[1], answer[keys[1]])
                   ELSE entries)

\* process_and_deduplicate as a whole: the loop over the items of
\* bibtex_entries, from state st
RECURSIVE dedup_all(_, _)
dedup_all(entries, st) ==
    IF entries = <<>> THEN st
    ELSE dedup_all(Tail(entries), dedup_step(st, entries[1][1], entries[1][2]))

\* the run from the list extract_citations returned to the return of
\* process_and_deduplicate
run_of(order, answer) ==
    dedup_all(fetch_all(lookup_order(process_keys(order)), answer, <<>>),
              [deduplicated_entries |-> <<>>, key_mapping |-> <<>>,
               seen_keys |-> <<>>])

\* the keys looked up in this run
LookedUp == {fetch_log[i][1] : i \in DOMAIN fetch_log}

\* every lookup of the same key returned the same answer in this run
SameAnswers ==
    \A i, j \in DOMAIN fetch_log :
        fetch_log[i][1] = fetch_log[j][1] =>
            IF Resolved(i) /\ Resolved(j) THEN fetch_log[i][2] = fetch_log[j][2]
            ELSE ~Resolved(i) /\ ~Resolved(j)

\* the registry answers of this run
AnswerOf ==
    [k \in LookedUp |->
        fetch_log[CHOOSE i \in DOMAIN fetch_log : fetch_log[i][1] = k][2]]

MaxKeyFrags == 4
MaxKeyList == 3

ArxivPrefix == <<"a", "r", "X", "i", "v", ":">>

\* what a key given to the classifier is made of
KeyFrags ==
    {<<"S">>, <<":">>, <<"2", "0", "2", "0">>, <<"2", "0", "2">>, <<"1">>,
     <<"a", "b", "c">>, <<"a", "b">>, <<".">>, <<"/">>, <<"v", "1">>,
     ArxivPrefix}

\* the keys made of at most n fragments
KeyStrings(n) == {Concat(fs) : fs \in SeqsOf(KeyFrags, 0, n)}

\* the keys of the longer lists: the keys of the documents, one of them
\* also with whitespace around it and with the prefix in upper case
ListKeys ==
    DocKeys \cup {<<" ">> \o KNum \o <<NL>>,
                  <<"A", "R", "X", "I", "V", ":">> \o KArxiv}

\* the lists given to process_keys: any single key of at most n
\* fragments, or 2 to m keys
ClassifyInputs(n, m) ==
    {<<k>> : k \in KeyStrings(n)} \cup SeqsOf(ListKeys, 2, m)

InitClassify ==
    /\ pc = "classify"
    /\ citations \in ClassifyInputs(MaxKeyFrags, MaxKeyList)
    /\ latex_content = <<>>
    /\ categorized_keys = process_keys(<<>>)
    /\ fetch_log = <<>>
    /\ raw_bibtex_entries = <<>>
    /\ deduplicated_entries = <<>>
    /\ key_mapping = <<>>
    /\ seen_keys = <<>>
    /\ updated_content = <<>>
    /\ replacements_made = 0
    /\ second_content = <<>>
    /\ second_replacements = 0
    /\ loop_index = 0
    /\ result = NoResult
    /\ http_log = <<>>
    /\ output_files = <<>>
    /\ output_filename = <<>>
    /\ bibliography_name = None
    /\ bib_filename = None

NextClassify == ProcessKeys

SpecClassify == InitClassify /\ [][NextClassify]_vars

Classified == pc = "fetch"

Schemes == {INSPIREHEP, INSPIREHEP_BIBTEX, ARXIV, UNKNOWN}

\* C13: identify_key_type returns exactly one of the four schemes for every
\* key, the same one with or without whitespace around the key, UNKNOWN for
\* a key that is empty once trimmed; and each of the four lists of
\* process_keys holds as many keys as the input has keys of its scheme, so
\* the four lengths add up to the number of input keys.
C13_ClassificationTotal ==
    Classified =>
        /\ \A i \in DOMAIN citations :
              LET k == citations[i]
              IN  /\ identify_key_type(k) \in Schemes
                  /\ identify_key_type(<<" ">> \o k \o <<NL>>) = identify_key_type(k)
                  /\ identify_key_type(Trimmed(k)) = identify_key_type(k)
                  /\ Trimmed(k) = <<>> => identify_key_type(k) = UNKNOWN
        /\ \A t \in Schemes :
              Len(categorized_keys[t]) =
                  Cardinality({i \in DOMAIN citations : identify_key_type(citations[i]) = t})
        /\ Len(categorized_keys.inspirehep) + Len(categorized_keys.inspirehep_bibtex)
              + Len(categorized_keys.arxiv) + Len(categorized_keys.unknown)
              = Len(citations)

\* a list of three keys of three schemes, one of them recognized through
\* the whitespace around it
C13_Witness ==
    /\ Classified
    /\ Len(citations) = 3
    /\ <<" ">> \o KNum \o <<NL>> \in Range(citations)
    /\ categorized_keys.inspirehep = <<KNum>>
    /\ Len(categorized_keys.arxiv) = 1
    /\ Len(categorized_keys.unknown) = 1

\* the rules of identify_key_type, by name
RuleNames == {"arxiv_new", "arxiv_old", "inspirehep_bibtex", "inspirehep"}

rule_matches(name, key) ==
    CASE name = "arxiv_new" -> arxiv_new_match(key)
      [] name = "arxiv_old" -> arxiv_old_match(key)
      [] name = "inspirehep_bibtex" -> inspirehep_bibtex_match(key)
      [] name = "inspirehep" -> inspirehep_match(key)

rule_scheme(name) ==
    CASE name = "arxiv_new" -> ARXIV
      [] name = "arxiv_old" -> ARXIV
      [] name = "inspirehep_bibtex" -> INSPIREHEP_BIBTEX
      [] name = "inspirehep" -> INSPIREHEP

\* the orders in which the four rules can be tried
RuleOrders == Orderings(RuleNames)

\* the scheme of the first rule of the list that is one of the matching
\* rules, UNKNOWN if none is
RECURSIVE first_match(_, _)
first_match(rules, matching) ==
    IF rules = <<>> THEN UNKNOWN
    ELSE IF rules[1] \in matching THEN rule_scheme(rules[1])
    ELSE first_match(Tail(rules), matching)

\* C14: for every key, at most one of the four patterns matches the
\* stripped key without its prefix, and trying the rules in any order
\* gives the scheme identify_key_type returns.
C14_RulesMutuallyExclusive ==
    Classified =>
        \A i \in DOMAIN citations :
            LET key == normalize_key(citations[i])
                matching == {r \in RuleNames : rule_matches(r, key)}
                scheme == identify_key_type(citations[i])
            IN  /\ Cardinality(matching) <= 1
                /\ \A rules \in RuleOrders : first_match(rules, matching) = scheme

\* a preprint id with a version suffix: it starts with digits and only the
\* preprint rule matches it
C14_Witness ==
    /\ Classified
    /\ citations = <<<<"2", "0", "2", "0", ".", "2", "0", "2", "0", "v", "1">>>>
    /\ categorized_keys.arxiv = citations
    /\ {r \in RuleNames : rule_matches(r, citations[1])} = {"arxiv_new"}

\* the ASCII letter c in lower case
Lower(c) ==
    IF c \in UpperLetters
    THEN CHOOSE l \in LowerLetters : SameLetterIgnoreCase(c, l)
    ELSE c

\* s is 'arxiv:' in any case followed by at least one character
HasArxivPrefix(s) ==
    /\ Len(s) >= 7
    /\ [i \in 1..6 |-> Lower(s[i])] = <<"a", "r", "x", "i", "v", ":">>

\* s without its 'arxiv:' prefix, if it has one
PrefixRemoved(s) == IF HasArxivPrefix(s) THEN Tail_(s, 7) ELSE s

\* s reads as: a authors characters, a colon, d digits, l letters
AuthorYearShape(s, a, d, l) ==
    /\ Len(s) = a + 1 + d + l
    /\ s[a + 1] = ":"
    /\ \A i \in 1..a : s[i] \in WordChars
    /\ \A i \in (a + 2)..(a + 1 + d) : s[i] \in Digits
    /\ \A i \in (a + 2 + d)..(a + 1 + d + l) : s[i] \in Letters

\* s is exactly a letter, letters/digits/underscores, a colon, 4 digits,
\* 3 letters
IsAuthorYear(s) ==
    \E a \in 1..Len(s) : AuthorYearShape(s, a, 4, 3) /\ s[1] \in Letters

\* s has the shape of an author-year key but 3 or 5 digits, 2 or 4
\* letters, a digit as first character, or no author
NearMissAuthorYear(s) ==
    \E a \in 0..Len(s), d \in 3..5, l \in 2..4 :
        /\ AuthorYearShape(s, a, d, l)
        /\ \/ d # 4
           \/ l # 3
           \/ a = 0
           \/ s[1] \in Digits

\* C15: a key is classified as an author-year key only when, trimmed and
\* without its prefix, it is exactly a letter, then letters, digits or
\* underscores, a colon, 4 digits and 3 letters; a key with 3 or 5 digits,
\* 2 or 4 letters, a leading digit or no author is classified UNKNOWN.
C15_AuthorYearExact ==
    Classified =>
        \A i \in DOMAIN citations :
            LET k == citations[i]
            IN  /\ identify_key_type(k) = INSPIREHEP_BIBTEX
                      => /\ IsAuthorYear(PrefixRemoved(Trimmed(k)))
                         /\ k \notin Range(categorized_keys.unknown)
                /\ NearMissAuthorYear(Trimmed(k))
                      => /\ identify_key_type(k) = UNKNOWN
                         /\ k \in Range(categorized_keys.unknown)

\* an author-year key with a two-letter suffix is listed as unknown
C15_Witness ==
    /\ Classified
    /\ citations = <<<<"S", ":", "2", "0", "2", "0", "a", "b">>>>
    /\ categorized_keys.unknown = citations
    /\ categorized_keys.inspirehep_bibtex = <<>>

\* C16: for every recognized key k, the key 'arXiv:' + k has the scheme of
\* k; the normalized form of a recognized key is the trimmed key without
\* its prefix, and a key without the prefix normalizes to its trimmed self.
C16_PrefixDoesNotChangeScheme ==
    Classified =>
        \A i \in DOMAIN citations :
            LET k == citations[i]
            IN  /\ identify_key_type(k) # UNKNOWN
                      => /\ identify_key_type(ArxivPrefix \o k) = identify_key_type(k)
                         /\ normalize_key(k) = PrefixRemoved(Trimmed(k))
                /\ ~HasArxivPrefix(Trimmed(k)) => normalize_key(k) = Trimmed(k)

\* s is digits only, at least one
IsAllDigit(s) == s # <<>> /\ \A i \in DOMAIN s : s[i] \in Digits

\* v is empty or a version suffix: one of the letters vs, then digits
IsVersion(v, vs) ==
    \/ v = <<>>
    \/ v[1] \in vs /\ IsAllDigit(Tail(v))

\* s is 4 digits, a dot, 4 or 5 digits, then an optional version
IsPreprintNew(s) ==
    \E n \in {9, 10} :
        /\ Len(s) >= n
        /\ s[5] = "."
        /\ \A i \in (1..n) \ {5} : s[i] \in Digits
        /\ IsVersion(Tail_(s, n + 1), {"v"})

\* u is letters and hyphens, optionally followed by a dot and two letters
IsSubject(u) ==
    \/ u # <<>> /\ \A i \in DOMAIN u : u[i] \in Letters \cup {"-"}
    \/ /\ Len(u) >= 4
       /\ u[Len(u) - 2] = "."
       /\ u[Len(u) - 1] \in Letters
       /\ u[Len(u)] \in Letters
       /\ \A i \in 1..(Len(u) - 3) : u[i] \in Letters \cup {"-"}

\* s is a subject, a slash, 7 digits, then an optional version
IsPreprintOld(s) ==
    \E p \in DOMAIN s :
        /\ s[p] = "/"
        /\ IsSubject(SubSeq(s, 1, p - 1))
        /\ Len(s) >= p + 7
        /\ \A i \in (p + 1)..(p + 7) : s[i] \in Digits
        /\ IsVersion(Tail_(s, p + 8), {"v", "V"})

\* s is a key of scheme t as the scheme writes it
SchemeValid(t, s) ==
    CASE t = INSPIREHEP -> IsAllDigit(s)
      [] t = INSPIREHEP_BIBTEX -> IsAuthorYear(s)
      [] t = ARXIV -> IsPreprintNew(s) \/ IsPreprintOld(s)
      [] t = UNKNOWN -> TRUE

\* C17: for every key of a scheme other than UNKNOWN, the normalized key,
\* which is the key process_keys puts in the list of the scheme, is a key
\* of that scheme as the scheme writes it: no whitespace around it, and
\* not a key of the scheme behind a prefix.
C17_NormalizedIsSchemeValid ==
    Classified =>
        /\ \A i \in DOMAIN citations :
              LET t == identify_key_type(citations[i])
                  n == normalize_key(citations[i])
              IN  t # UNKNOWN =>
                      /\ SchemeValid(t, n)
                      /\ Trimmed(n) = n
                      /\ ~(HasArxivPrefix(n) /\ SchemeValid(t, PrefixRemoved(n)))
                      /\ n \in Range(categorized_keys[t])
        /\ \A t \in Schemes \ {UNKNOWN} :
              \A j \in DOMAIN categorized_keys[t] :
                  SchemeValid(t, categorized_keys[t][j])

\* a list with a prefixed preprint id and a numeric id with whitespace
\* around it: the lists hold the bare id and the bare number
C17_Witness ==
    /\ Classified
    /\ citations = <<KArxivPrefixed, <<" ">> \o KNum \o <<NL>>>>
    /\ categorized_keys.arxiv = <<KArxiv>>
    /\ categorized_keys.inspirehep = <<KNum>>

(***************************************************************************)
(* Properties of process_and_deduplicate, pair by pair                     *)
(***************************************************************************)
\* the number of items of bibtex_entries the loop has handled
Processed == IF pc = "dedup" THEN loop_index ELSE Len(raw_bibtex_entries)

\* no entry key can be extracted from the record of pair i
Malformed(i) == EmbeddedKey(raw_bibtex_entries[i][2]) = None

\* the canonical key of pair i: the entry key of its record, or its
\* original key when the record has none
CanonOf(i) ==
    IF Malformed(i) THEN raw_bibtex_entries[i][1]
    ELSE EmbeddedKey(raw_bibtex_entries[i][2])

\* no pair before pair i has the canonical key of pair i
FirstSeen(i) == \A j \in 1..(i - 1) : CanonOf(j) # CanonOf(i)

\* the first pair that has the canonical key of pair i
FirstWith(i) ==
    CHOOSE j \in 1..i : CanonOf(j) = CanonOf(i) /\ FirstSeen(j)

\* C18: in process_and_deduplicate, a pair whose record has no entry key
\* is handled with its original key as the canonical key: the original key
\* is mapped to itself, the record is stored under it unless an earlier
\* pair already had that canonical key, and the loop goes on: when it
\* returns, every pair has its entry in key_mapping.
C18_MalformedFallsBackToRawKey ==
    (pc \in {"dedup", "rewrite"}) =>
        /\ \A i \in 1..Processed :
              Malformed(i) =>
                  LET k == raw_bibtex_entries[i][1]
                  IN  /\ DictHas(key_mapping, k)
                      /\ DictGet(key_mapping, k) = k
                      /\ DictHas(deduplicated_entries, k)
                      /\ DictGet(deduplicated_entries, k)
                             = raw_bibtex_entries[FirstWith(i)][2]
        /\ pc = "rewrite" =>
              \A i \in DOMAIN raw_bibtex_entries :
                  DictHas(key_mapping, raw_bibtex_entries[i][1])

\* a record without entry key whose original key was already seen as the
\* entry key of an earlier record, followed by a well-formed record
C18_Witness ==
    /\ pc = "rewrite"
    /\ Len(raw_bibtex_entries) = 3
    /\ Malformed(2)
    /\ ~FirstSeen(2)
    /\ ~Malformed(3)
    /\ Len(key_mapping) = 3
    /\ Len(deduplicated_entries) = 2

\* the entries of the pairs from i to n that are the first with their
\* canonical key, in the order of the pairs
RECURSIVE FirstSeenEntries(_, _)
FirstSeenEntries(i, n) ==
    IF i > n THEN <<>>
    ELSE IF FirstSeen(i)
         THEN <<<<CanonOf(i), raw_bibtex_entries[i][2]>>>> \o FirstSeenEntries(i + 1, n)
         ELSE FirstSeenEntries(i + 1, n)

\* C19: at every point of process_and_deduplicate, deduplicated_entries is
\* the list of the canonical keys first seen so far, in first-seen order,
\* each with the record of the first pair that produced it; a later alias
\* leaves that list as it is and only adds its entry to key_mapping.
C19_FirstSeenWins ==
    (pc \in {"dedup", "rewrite"}) =>
        /\ deduplicated_entries = FirstSeenEntries(1, Processed)
        /\ Len(key_mapping) = Processed
        /\ \A i \in 1..Processed :
              /\ DictHas(key_mapping, raw_bibtex_entries[i][1])
              /\ DictGet(key_mapping, raw_bibtex_entries[i][1]) = CanonOf(i)

\* two records of one work with different texts, a record of another work
\* between them: the entry of the first is kept in first place
C19_Witness ==
    /\ pc = "rewrite"
    /\ Len(raw_bibtex_entries) = 3
    /\ CanonOf(1) = CanonOf(3)
    /\ raw_bibtex_entries[1][2] # raw_bibtex_entries[3][2]
    /\ CanonOf(2) # CanonOf(1)
    /\ deduplicated_entries =
           <<<<CanonOf(1), raw_bibtex_entries[1][2]>>,
             <<CanonOf(2), raw_bibtex_entries[2][2]>>>>
    /\ Len(key_mapping) = 3

(***************************************************************************)
(* process_keys and fetch_bibtex_entries on any list of distinct keys      *)
(***************************************************************************)
MaxFetchKeys == 3

\* the lists extract_citations can return: at most n distinct keys
FetchInputs(n) ==
    {ks \in SeqsOf(DocKeys, 0, n) :
        \A i, j \in DOMAIN ks : ks[i] = ks[j] => i = j}

InitFetch ==
    /\ pc = "classify"
    /\ citations \in FetchInputs(MaxFetchKeys)
    /\ latex_content = <<>>
    /\ categorized_keys = process_keys(<<>>)
    /\ fetch_log = <<>>
    /\ raw_bibtex_entries = <<>>
    /\ deduplicated_entries = <<>>
    /\ key_mapping = <<>>
    /\ seen_keys = <<>>
    /\ updated_content = <<>>
    /\ replacements_made = 0
    /\ second_content = <<>>
    /\ second_replacements = 0
    /\ loop_index = 0
    /\ result = NoResult
    /\ http_log = <<>>
    /\ output_files = <<>>
    /\ output_filename = <<>>
    /\ bibliography_name = None
    /\ bib_filename = None

NextFetch ==
    \/ ProcessKeys
    \/ FetchOne
    \/ FetchReturn

SpecFetch == InitFetch /\ [][NextFetch]_vars

\* the place of a scheme in the order of the lookups
GroupRank(t) ==
    CASE t = INSPIREHEP -> 1
      [] t = INSPIREHEP_BIBTEX -> 2
      [] t = ARXIV -> 3
      [] t = UNKNOWN -> 4

\* the keys of a list of pairs are grouped: numeric ids, then author-year
\* keys, then preprint ids, and none is an unknown key
Grouped(pairs) ==
    /\ \A i \in DOMAIN pairs : identify_key_type(pairs[i][1]) # UNKNOWN
    /\ \A i, j \in DOMAIN pairs :
          i < j => GroupRank(identify_key_type(pairs[i][1]))
                       <= GroupRank(identify_key_type(pairs[j][1]))

\* fetch_bibtex_entries has returned
Fetched ==
    pc \in {"dedup", "done"} /\ result.status \notin {"no_citations", "error"}

\* C20: the lookups of fetch_bibtex_entries are made group by group, every
\* numeric id before any author-year key and every author-year key before
\* any preprint id; the dict it returns lists its keys in that order of
\* groups; a key classified UNKNOWN is never looked up, and every other
\* key is.
C20_LookupsGroupedByScheme ==
    /\ pc \in {"fetch", "dedup", "done"} =>
          /\ Grouped(fetch_log)
          /\ Grouped(raw_bibtex_entries)
          /\ \A r \in Range(citations) :
                identify_key_type(r) = UNKNOWN => r \notin LookedUp
    /\ Fetched =>
          LookedUp = {normalize_key(r) : r \in
                         {c \in Range(citations) : identify_key_type(c) # UNKNOWN}}

\* a preprint id, an author-year key and a numeric id, returned in that
\* order by the extractor, are looked up and stored in the opposite order
C20_Witness ==
    /\ pc = "dedup"
    /\ citations = <<KArxiv, KAuthorYear, KNum>>
    /\ [i \in DOMAIN fetch_log |-> fetch_log[i][1]] = <<KNum, KAuthorYear, KArxiv>>
    /\ [i \in DOMAIN raw_bibtex_entries |-> raw_bibtex_entries[i][1]]
           = <<KNum, KAuthorYear, KArxiv>>

(***************************************************************************)
(* Lookups that fail                                                       *)
(***************************************************************************)
\* the hits a parsed search body lists: the items of hits.hits
HitsOf(json) ==
    IF json.type # "object" THEN <<>>
    ELSE LET outer == Member(json, "hits", JObject(<<>>))
         IN  IF outer.type # "object" THEN <<>>
             ELSE LET hits == Member(outer, "hits", JArray(<<>>))
                  IN  IF hits.type = "array" THEN hits.content ELSE <<>>

\* a request of the lookup met a transport error or a status other than
\* 200, or its search response has an unparseable body or lists no hit
MetFailure(x) ==
    \/ x.search.kind = "RequestException"
    \/ x.record.kind = "RequestException"
    \/ x.search.kind = "response" /\ x.search.status_code # 200
    \/ x.record.kind = "response" /\ x.record.status_code # 200
    \/ /\ x.search.kind = "response"
       /\ x.search.status_code = 200
       /\ \/ x.search.json.type = "invalid"
          \/ HitsOf(x.search.json) = <<>>

\* C21: a lookup whose request met a transport error, a non-200 status, an
\* unparseable JSON body or a response without hits returns None and does
\* not raise; fetch_bibtex_entries goes on to look up every remaining key,
\* and the dict it builds has exactly the keys whose lookup returned a
\* record.
C21_FailedLookupsReturnNone ==
    /\ \A i \in DOMAIN http_log :
          MetFailure(http_log[i]) =>
              /\ http_log[i].outcome.exception = "none"
              /\ http_log[i].outcome.value = None
    /\ pc \in {"fetch", "dedup", "done"} =>
          {raw_bibtex_entries[i][1] : i \in DOMAIN raw_bibtex_entries}
              = {fetch_log[i][1] : i \in {j \in DOMAIN fetch_log : Resolved(j)}}
    /\ (pc \in {"dedup", "done"} /\ result.status # "no_citations") =>
          Len(fetch_log) = Len(lookup_order(categorized_keys))

(***************************************************************************)
(* How a run of process_latex_file ends                                    *)
(***************************************************************************)
\* the run has returned without an exception having been caught
ReturnedNormally == pc = "done" /\ result.status # "error"

\* no lookup of key k returned a record
Missed(k) ==
    /\ \E i \in DOMAIN fetch_log : fetch_log[i][1] = k
    /\ \A i \in DOMAIN fetch_log : fetch_log[i][1] = k => ~Resolved(i)

\* C22: a run that extracted at least one key and met no read, write or
\* request exception returns the rewritten document and the bibliography,
\* however many of its lookups returned None, all of them included; a key
\* whose lookups all returned None is not a key of key_mapping.
C22_LookupMissNeverAborts ==
    (ReturnedNormally /\ citations # <<>>) =>
        /\ result.status = "ok"
        /\ result.latex_path # None
        /\ result.bibtex_path # None
        /\ DictHas(output_files, latex_filename)
        /\ DictHas(output_files, bib_filename)
        /\ \A k \in LookedUp : Missed(k) => ~DictHas(key_mapping, k)

\* the extractor has run: the run is past process_uploaded_file and did
\* not end with an exception
ExtractionDone == pc \notin {"read", "start"} /\ result.status # "error"

\* C23: once the extractor has returned the empty list, the run is over:
\* it has returned the no-citations message with no file path, and there
\* has been no classification, no lookup and no file write.
C23_EmptyExtractionIsTerminal ==
    (ExtractionDone /\ ExtractedKeySet(latex_content) = {}) =>
        /\ pc = "done"
        /\ result.status = "no_citations"
        /\ result.latex_path = None
        /\ result.bibtex_path = None
        /\ categorized_keys = process_keys(<<>>)
        /\ fetch_log = <<>>
        /\ http_log = <<>>
        /\ raw_bibtex_entries = <<>>
        /\ output_files = <<>>
    /\ output_filename = <<>>
    /\ bibliography_name = None
    /\ bib_filename = None

\* a document whose only citation command is commented out has been
\* answered with the no-citations message
C23_Witness ==
    /\ result.status = "no_citations"
    /\ MarkerKeySet(latex_content) # {}
    /\ pc = "done"

(***************************************************************************)
(* process_latex_file on documents of one citation command                 *)
(***************************************************************************)
MaxRunKeys == 2

\* a numeric id, a preprint id and an unknown key
RunKeys == {KNum, KArxiv, KUnknown}

\* the texts of one citation command with at most n keys, that command
\* commented out, and the empty text
RunDocuments(n) ==
    {<<>>}
        \cup {CiteCommand(ks, FALSE) : ks \in SeqsOf(RunKeys, 1, n)}
        \cup {<<"%">> \o CiteCommand(ks, FALSE) : ks \in SeqsOf(RunKeys, 1, n)}

InitRun ==
    /\ pc = "read"
    /\ latex_content \in RunDocuments(MaxRunKeys)
    /\ citations = <<>>
    /\ categorized_keys = process_keys(<<>>)
    /\ fetch_log = <<>>
    /\ raw_bibtex_entries = <<>>
    /\ deduplicated_entries = <<>>
    /\ key_mapping = <<>>
    /\ seen_keys = <<>>
    /\ updated_content = <<>>
    /\ replacements_made = 0
    /\ second_content = <<>>
    /\ second_replacements = 0
    /\ loop_index = 0
    /\ result = NoResult
    /\ http_log = <<>>
    /\ output_files = <<>>
    /\ output_filename = <<>>
    /\ bibliography_name = None
    /\ bib_filename = None

NextRun ==
    \/ ReadFile
    \/ ExtractCitations
    \/ ProcessKeys
    \/ FetchOne
    \/ FetchReturn
    \/ DedupStep
    \/ DedupReturn
    \/ CreateStandardizedLatex
    \/ WriteFiles

SpecRun == InitRun /\ [][NextRun]_vars

\* both output files are on disk with their final content
FilesComplete ==
    /\ DictHas(output_files, latex_filename)
    /\ DictGet(output_files, latex_filename) = latex_file(updated_content)
    /\ DictHas(output_files, bib_filename)
    /\ DictGet(output_files, bib_filename) = bibtex_file(deduplicated_entries)

\* C24: a run in which reading the document or writing an output file
\* raised has returned, with the error message and None for both paths,
\* whichever files it had written before; a run returns the two paths
\* only when both files are complete.
C24_FailureReturnsNoPath ==
    /\ result.status = "error" =>
          /\ pc = "done"
          /\ result.latex_path = None
          /\ result.bibtex_path = None
    /\ pc = "done" =>
          /\ result.status \in {"ok", "no_citations", "no_entries", "error"}
          /\ result.status = "ok" <=> FilesComplete
          /\ result.status = "ok" =>
                /\ result.latex_path = latex_filename
                /\ result.bibtex_path = bib_filename

\* the bibliography file was written, the write of the LaTeX file raised,
\* and the run returned an error
C24_Witness ==
    /\ pc = "done"
    /\ result.status = "error"
    /\ DictHas(output_files, bib_filename)
    /\ DictHas(output_files, latex_filename)
    /\ ~FilesComplete

(***************************************************************************)
(* The name of the bibliography file: any user-supplied name, any          *)
(* \bibliography declaration                                               *)
(***************************************************************************)
MaxNameFrags == 3

NameFrags == {<<"a">>, BibExtension, <<" ">>, <<".">>}

\* the names made of at most n fragments
Names(n) == {Concat(fs) : fs \in SeqsOf(NameFrags, 0, n)}

BibliographyCommand(name) == BibliographyPrefix \o name \o <<"}">>

\* a text citing one numeric id, without or with a \bibliography
\* declaration
FilenameDocuments(n) ==
    {CiteCommand(<<KNum>>, FALSE)}
        \cup {CiteCommand(<<KNum>>, FALSE) \o BibliographyCommand(name) :
                 name \in Names(n) \ {<<>>}}

\* process_latex_file after process_and_deduplicate returned, the lookup
\* of the one key having returned its record
InitFilename ==
    /\ pc = "rewrite"
    /\ latex_content \in FilenameDocuments(MaxNameFrags)
    /\ output_filename \in Names(MaxNameFrags)
    /\ bibliography_name = extract_bibliography_name(latex_content)
    /\ bib_filename = None
    /\ citations = <<KNum>>
    /\ categorized_keys = process_keys(citations)
    /\ fetch_log = <<<<KNum, RecS>>>>
    /\ raw_bibtex_entries = <<<<KNum, RecS>>>>
    /\ LET st == run_of(citations, [k \in {KNum} |-> RecS])
       IN  /\ deduplicated_entries = st.deduplicated_entries
           /\ key_mapping = st.key_mapping
           /\ seen_keys = st.seen_keys
    /\ updated_content = <<>>
    /\ replacements_made = 0
    /\ second_content = <<>>
    /\ second_replacements = 0
    /\ loop_index = 0
    /\ result = NoResult
    /\ http_log = <<>>
    /\ output_files = <<>>

NextFilename == CreateStandardizedLatex

SpecFilename == InitFilename /\ [][NextFilename]_vars

\* a name is given: it is neither None nor the empty string
Given(name) == IF name = None THEN FALSE ELSE name # <<>>

\* the name the priority picks: the user-supplied name when it is not
\* blank, else the hint when there is one, else the default; trimmed
ChosenName ==
    IF Strip(output_filename) # <<>> THEN Strip(output_filename)
    ELSE IF Given(bibliography_name) THEN Strip(bibliography_name)
    ELSE default_name

\* C25: the bibliography file name is the trimmed user-supplied name when
\* one is given, else the trimmed hint when one was extracted, else
\* `references` (a blank name or hint counting as none); it is that name
\* as it is when the name ends in `.bib`, that name followed by `.bib`
\* otherwise, so it always ends in `.bib` and the extension is not doubled.
C25_FilenameByPriority ==
    bib_filename # None =>
        /\ EndsWith(bib_filename, BibExtension)
        /\ bib_filename \in {ChosenName, ChosenName \o BibExtension}
        /\ bib_filename = ChosenName <=> EndsWith(ChosenName, BibExtension)

\* a blank user-supplied name and the hint `a.bib`: the file is `a.bib`
C25_Witness ==
    /\ pc = "write"
    /\ output_filename = <<" ">>
    /\ Given(bibliography_name)
    /\ bibliography_name = <<"a">> \o BibExtension
    /\ bib_filename = <<"a">> \o BibExtension

(***************************************************************************)
(* extract_bibliography_name on its own: any text                          *)
(***************************************************************************)
MaxBibFrags == 6

BibFrags == {BibliographyPrefix, <<"}">>, <<"a">>, <<"b">>, <<" ">>}

\* the texts made of at most n fragments
BibDocuments(n) == {Concat(fs) : fs \in SeqsOf(BibFrags, 0, n)}

InitBibName ==
    /\ pc = "start"
    /\ latex_content \in BibDocuments(MaxBibFrags)
    /\ citations = <<>>
    /\ categorized_keys = process_keys(<<>>)
    /\ fetch_log = <<>>
    /\ raw_bibtex_entries = <<>>
    /\ deduplicated_entries = <<>>
    /\ key_mapping = <<>>
    /\ seen_keys = <<>>
    /\ updated_content = <<>>
    /\ replacements_made = 0
    /\ second_content = <<>>
    /\ second_replacements = 0
    /\ loop_index = 0
    /\ result = NoResult
    /\ http_log = <<>>
    /\ output_files = <<>>
    /\ output_filename = <<>>
    /\ bibliography_name = None
    /\ bib_filename = None

NextBibName == ExtractCitations

SpecBibName == InitBibName /\ [][NextBibName]_vars

\* a \bibliography declaration starts at position i of the text: the
\* command, an opening brace, an argument of at least one character and
\* the closing brace
DeclarationAt(text, i) ==
    /\ StartsAt(text, i, BibliographyPrefix)
    /\ Find(text, "}", i + 14) > i + 14

\* the argument of the declaration at position i
ArgumentAt(text, i) == SubSeq(text, i + 14, Find(text, "}", i + 14) - 1)

\* where the declarations of the text start
Declarations(text) == {i \in 1..Len(text) : DeclarationAt(text, i)}

\* C26: the name process_uploaded_file returns with the keys is None when
\* the text has no \bibliography declaration, else the argument of the
\* declaration that starts first, without the whitespace around it.
C26_FirstDeclarationTrimmed ==
    pc # "start" =>
        LET ds == Declarations(latex_content)
        IN  IF ds = {} THEN bibliography_name = None
            ELSE /\ bibliography_name # None
                 /\ bibliography_name =
                       Trimmed(ArgumentAt(latex_content,
                                   CHOOSE i \in ds : \A j \in ds : i <= j))

\* a text with two declarations of different names: the name is the one of
\* the first
C26_Witness ==
    /\ pc # "start"
    /\ \E i, j \in Declarations(latex_content) :
          /\ i < j
          /\ ArgumentAt(latex_content, i) # ArgumentAt(latex_content, j)
          /\ bibliography_name # None
          /\ bibliography_name = ArgumentAt(latex_content, i)

(***************************************************************************)
(* extract_citations on its own: braces inside citation commands           *)
(***************************************************************************)
MaxBraceFrags == 6

BraceFrags == {CitePrefix, <<"{">>, <<"}">>, <<",">>, <<"a">>}

\* the texts made of at most n fragments
BraceDocuments(n) == {Concat(fs) : fs \in SeqsOf(BraceFrags, 0, n)}

InitBraces ==
    /\ pc = "start"
    /\ latex_content \in BraceDocuments(MaxBraceFrags)
    /\ citations = <<>>
    /\ categorized_keys = process_keys(<<>>)
    /\ fetch_log = <<>>
    /\ raw_bibtex_entries = <<>>
    /\ deduplicated_entries = <<>>
    /\ key_mapping = <<>>
    /\ seen_keys = <<>>
    /\ updated_content = <<>>
    /\ replacements_made = 0
    /\ second_content = <<>>
    /\ second_replacements = 0
    /\ loop_index = 0
    /\ result = NoResult
    /\ http_log = <<>>
    /\ output_files = <<>>
    /\ output_filename = <<>>
    /\ bibliography_name = None
    /\ bib_filename = None

NextBraces == ExtractCitations

SpecBraces == InitBraces /\ [][NextBraces]_vars

\* where `\cite{` occurs in the text with a closing brace after it
MarkerStarts(text) ==
    {i \in 1..Len(text) :
        StartsAt(text, i, CitePrefix) /\ Find(text, "}", i + 6) # 0}

\* the text between the `\cite{` at position i and the first closing brace
\* after it
TruncatedPayload(text, i) ==
    SubSeq(text, i + 6, Find(text, "}", i + 6) - 1)

\* the non-empty trimmed segments of a payload
KeysOfPayload(payload) ==
    {Trimmed(seg) : seg \in Segments(payload)} \ {<<>>}

\* C27: braces are not balanced: every key the extractor returns is a
\* segment of the text between a `\cite{` and the first closing brace
\* after it, the segments before that brace of the first `\cite{` are all
\* returned, and nothing after that brace is part of a key.
C27_PayloadEndsAtFirstClosingBrace ==
    Extracted =>
        LET starts == MarkerStarts(latex_content)
        IN  /\ \A k \in Range(citations) :
                  \E i \in starts :
                      k \in KeysOfPayload(TruncatedPayload(latex_content, i))
            /\ starts # {} =>
                  KeysOfPayload(TruncatedPayload(latex_content,
                        CHOOSE i \in starts : \A j \in starts : i <= j))
                      \subseteq Range(citations)

\* `\cite{{a}a}`: the one key is `{a`
C27_Witness ==
    /\ Extracted
    /\ latex_content = CitePrefix \o <<"{", "a", "}", "a", "}">>
    /\ citations = <<<<"{", "a">>>>

(***************************************************************************)
(* process_and_deduplicate: the two dicts it returns, taken together       *)
(***************************************************************************)
\* the keys of a dict, as a set
KeySet(dict) == {dict[i][1] : i \in DOMAIN dict}

\* the values of a dict, as a set
ValueSet(dict) == {dict[i][2] : i \in DOMAIN dict}

\* C28: in process_and_deduplicate, the keys of deduplicated_entries are
\* exactly the values of key_mapping and the keys of key_mapping are
\* exactly the original keys of the pairs handled so far; the bibliography
\* file written from deduplicated_entries has exactly one block for every
\* value of key_mapping.
C28_NoDanglingRenames ==
    /\ KeySet(deduplicated_entries) = ValueSet(key_mapping)
    /\ KeySet(key_mapping) =
          {raw_bibtex_entries[i][1] : i \in 1..Processed}
    /\ LET blocks == bibtex_file(deduplicated_entries)
       IN  /\ KeySet(blocks) = ValueSet(key_mapping)
           /\ \A v \in ValueSet(key_mapping) :
                 Cardinality({i \in DOMAIN blocks : blocks[i][1] = v}) = 1

\* process_and_deduplicate has returned for three pairs, two of them
\* aliases of one entry key and one with a record without entry key
C28_Witness ==
    /\ pc = "rewrite"
    /\ Len(raw_bibtex_entries) = 3
    /\ Len(deduplicated_entries) = 2
    /\ \E i \in DOMAIN raw_bibtex_entries : Malformed(i)
    /\ \E i, j \in DOMAIN raw_bibtex_entries :
          i # j /\ ~Malformed(i) /\ CanonOf(i) = CanonOf(j)

\* the state process_and_deduplicate starts from
EmptyDedupState ==
    [deduplicated_entries |-> <<>>, key_mapping |-> <<>>, seen_keys |-> <<>>]

\* what process_and_deduplicate returns for the pairs of this run taken in
\* another order
Reordered(order) == dedup_all(order, EmptyDedupState)

\* C29: process_and_deduplicate returns, for the same pairs taken in any
\* order, the same key_mapping as a mapping and the same set of keys of
\* deduplicated_entries.
C29_SameMappingInAnyOrder ==
    pc = "rewrite" =>
        \A order \in Orderings(Range(raw_bibtex_entries)) :
            /\ Range(Reordered(order).key_mapping) = Range(key_mapping)
            /\ KeySet(Reordered(order).deduplicated_entries)
                  = KeySet(deduplicated_entries)

\* two aliases with different record texts: taken in the other order, the
\* same mapping is returned and the other record text is stored
C29_Witness ==
    /\ pc = "rewrite"
    /\ Len(raw_bibtex_entries) = 2
    /\ Len(deduplicated_entries) = 1
    /\ LET other == Reordered(<<raw_bibtex_entries[2], raw_bibtex_entries[1]>>)
       IN  /\ Range(other.key_mapping) = Range(key_mapping)
           /\ other.deduplicated_entries # deduplicated_entries

(***************************************************************************)
(* create_standardized_latex: mappings whose values are keys               *)
(***************************************************************************)
\* the value of key is itself a key of the mapping, with another value
Chained(key) ==
    /\ DictHas(key_mapping, key)
    /\ DictHas(key_mapping, DictGet(key_mapping, key))
    /\ DictGet(key_mapping, DictGet(key_mapping, key))
          # DictGet(key_mapping, key)

\* the emitted payload holds, for every segment that is a key of the
\* mapping, the value of that key and not the value of that value
EmittedWithoutChaining(inPayload, outPayload) ==
    LET segs == Split(inPayload, ",")
        kept == {j \in DOMAIN segs : Strip(segs[j]) # <<>>}
        rank(j) == Cardinality({i \in kept : i <= j})
        outs == EmittedKeys(outPayload)
    IN  /\ Len(outs) = Cardinality(kept)
        /\ \A j \in kept :
              LET key == Strip(segs[j])
              IN  /\ DictHas(key_mapping, key)
                        => outs[rank(j)] = DictGet(key_mapping, key)
                  /\ Chained(key)
                        => outs[rank(j)] #
                              DictGet(key_mapping, DictGet(key_mapping, key))

\* C30: one pass looks every segment up once and does not look up the key
\* it substituted: a segment a is emitted as b when the mapping has a -> b,
\* also when it has b -> c, and every segment that is a key of the mapping
\* counts as one replacement.
C30_SinglePassNoChaining ==
    Rewritten =>
        LET ins == FindallCite(latex_content, 1)
        IN  /\ ParsedOutput.ok
            /\ Len(ParsedOutput.payloads) = Len(ins)
            /\ \A k \in DOMAIN ins :
                   EmittedWithoutChaining(ins[k], ParsedOutput.payloads[k])
            /\ replacements_made =
                   Cardinality({p \in SegmentPositions :
                                   DictHas(key_mapping, SegmentAt(p))})

\* `\cite{a}` with the mapping a -> b, b -> c becomes `\cite{b}`, one
\* replacement
C30_Witness ==
    /\ pc = "write"
    /\ key_mapping = <<<<KA, KB>>, <<KB, KC>>>>
    /\ latex_content = CitePrefix \o KA \o <<"}">>
    /\ updated_content = CitePrefix \o KB \o <<"}">>
    /\ replacements_made = 1

====
